---- MODULE Spec2Model ----
(***************************************************************************)
(* Identity & Relationship Core of the pet-matching backend.               *)
(*                                                                         *)
(* Every HTTP request is an independent unit of work with its own          *)
(* AsyncSession against one PostgreSQL database (READ COMMITTED): a        *)
(* request's statements see what was committed when each statement runs,   *)
(* the ORM keeps the rows a request has loaded in memory                   *)
(* (expire_on_commit=False), and db.commit() publishes the pending insert  *)
(* or update.  A handler is therefore a sequence of atomic steps, one per  *)
(* database round trip that another request can interleave with.           *)
(***************************************************************************)
EXTENDS Integers, Sequences, FiniteSets, Bags, TLC

\* ---------------------------------------------------------------- bounds
NumUsers == 2
\* requests the match engine serves in one behaviour
MaxRequests == 3

\* requests of both kinds served in one behaviour of the two parts together
MaxCoreRequests == 3

\* direct calls of repository and security functions in one behaviour
MaxCalls == 3
\* the user ids such a call is given: 1..MaxUserId
MaxUserId == 3

\* requests the session ledger serves in one behaviour
MaxSessionRequests == 3
\* the clock runs from 1 to MaxTime, in units of the refresh-token lifetime
MaxTime == 3
\* refresh_expires_at = now + timedelta(days=30): one clock unit
RefreshTTL == 1
\* register and confirm requests received in a behaviour, the e-mail addresses
\* they name, and email_verification_max_attempts (5 in config.py) scaled down
MaxAccountRequests == 4
NumEmails == 1
EmailVerificationMaxAttempts == 2
\* email_verification_code_ttl_minutes, in ticks of the clock where codes are
\* studied
CodeTTL == 1
\* photo requests received in a behaviour, and the longest photo_ids a reorder
\* request carries
MaxPhotoRequests == 4
MaxOrderedIds == 3

Users == 1..NumUsers
\* one animal per user, and a second one for user 1
NumAnimals == NumUsers + 1
Animals == 1..NumAnimals
\* 0 is an animal id that names no row
AnimalIds == 0..NumAnimals
None == 0

VARIABLES
    animal_likes,   \* table animal_likes: rows [id, from_user_id, animal_id, result]
    user_matches,   \* table user_matches: rows [id, user_id1, user_id2]
    reqs,           \* bag of the like/dislike requests, in flight or answered
    user_devices,   \* table user_devices: rows [id, user_id, device_id, last_ip]
    user_sessions,  \* table user_sessions, see CreateSession
    sreqs,          \* bag of the auth requests in flight
    answered,       \* the auth request answered last, with its outcome
    nreq,           \* number of auth requests received so far
    now,            \* the clock, dt.datetime.now(dt.timezone.utc)
    call,           \* the function called last outside a request, and its outcome
    uq_user_devices, \* does table user_devices carry uq_user_devices_user_device?
    users,          \* table users, see UserRow
    email_verification_codes, \* table email_verification_codes, see register_commit
    creqs,          \* bag of the register and confirm requests in flight
    canswered,      \* the register or confirm request answered last
    ncreq,          \* number of register and confirm requests received so far
    animal_photos,  \* table animal_photos of one animal: rows [id, is_primary, position]
    photo_id_seq,   \* the sequence behind animal_photos.id: the last id given
    preqs,          \* bag of the photo requests in flight
    panswered,      \* the photo request answered last
    npreq           \* number of photo requests received so far

\* absent header values of a request that sends none
NoUuid == "-"
NoClient == "-"

\* before the first answer
NoAnswer ==
    [op |-> "none", user |-> None, token |-> None, password_ok |-> FALSE,
     uuid |-> NoUuid, client |-> NoClient, except |-> None,
     pc |-> "done", session |-> None, device |-> None, loaded |-> {},
     status |-> "none", new_session |-> None]

\* How the schema was built: by the Alembic migrations (user_devices is
\* created with uq_user_devices_user_device: TRUE) or by the
\* Base.metadata.create_all of on_startup, from a UserDevice model that
\* declares no UniqueConstraint (FALSE).  create_all leaves existing tables
\* alone, so it is whichever came first on the database.
SchemaBuilds == BOOLEAN

\* A row of table users.  People are numbered: person p registers with phone
\* p and e-mail p.  hashed_password tells whether the column holds a hash
\* (what verify_password answers for a presented password is an input of
\* login).
UserRow(id, p, is_active, hashed_password, is_email_verified) ==
    [id |-> id, phone |-> p, email |-> p, is_active |-> is_active,
     hashed_password |-> hashed_password, is_email_verified |-> is_email_verified]

\* scalar_one_or_none() of a select that found no user
NoUser ==
    [id |-> None, phone |-> None, email |-> None, is_active |-> FALSE,
     hashed_password |-> FALSE, is_email_verified |-> FALSE]

\* the users of the match and session parts: registered, active, with a
\* password and a confirmed e-mail
ConfirmedUsers == {UserRow(u, u, TRUE, TRUE, TRUE) : u \in Users}

\* Further rows of table users: a user who registered and did not confirm
\* the e-mail yet, a user disabled through is_active, and a user whose
\* hashed_password is NULL (the column is Optional).
OtherUsers ==
    {UserRow(NumUsers + 1, NumUsers + 1, TRUE, TRUE, FALSE),
     UserRow(NumUsers + 2, NumUsers + 2, FALSE, TRUE, TRUE),
     UserRow(NumUsers + 3, NumUsers + 3, TRUE, FALSE, TRUE)}

\* before the first answer to a register or confirm request
NoAccountAnswer ==
    [op |-> "none", email |-> None, code |-> None, pc |-> "done", user |-> None,
     code_row |-> None, attempt_count |-> 0, status |-> "none"]

\* before the first answer to a photo request
NoPhotoAnswer ==
    [op |-> "none", photo |-> None, ordered_ids |-> <<>>, pc |-> "done",
     loaded |-> {}, count |-> 0, was_primary |-> FALSE, status |-> "none"]

\* before the first call
NoCall == [n |-> 0, fn |-> "none", args |-> <<>>, raised |-> "", result |-> <<>>]

varsMatch == <<animal_likes, user_matches, reqs>>
varsSession == <<user_devices, user_sessions, sreqs, answered, nreq, now>>
varsCalls == <<call>>
varsSchema == <<uq_user_devices>>
varsAccount == <<users, email_verification_codes, creqs, canswered, ncreq>>
varsPhotos == <<animal_photos, photo_id_seq, preqs, panswered, npreq>>
vars == <<animal_likes, user_matches, reqs, user_devices, user_sessions, sreqs,
          answered, nreq, now, call, uq_user_devices,
          users, email_verification_codes, creqs, canswered, ncreq,
          animal_photos, photo_id_seq, preqs, panswered, npreq>>

\* ------------------------------------------------------------ the tables
\* animals.owner_user_id of the (fixed) listings
OwnerOf(a) == ((a - 1) % NumUsers) + 1

\* get_animal_by_id / select(Animal).where(Animal.id == ...): the row or None;
\* every listing of the fixed table has status "active"
AnimalRow(a) ==
    IF a \in Animals
    THEN [id |-> a, owner_user_id |-> OwnerOf(a), status |-> "active"]
    ELSE [id |-> None, owner_user_id |-> None, status |-> "none"]

\* autoincrement primary key: larger than every id in the table
NextId(table) == Cardinality(table) + 1

\* UniqueConstraint uq_animal_likes_from_user_animal: may this row be inserted?
UqAnimalLikesNoConstraint(table, u, a) == TRUE
UqAnimalLikes(table, u, a) ==
    \A l \in table : ~(l.from_user_id = u /\ l.animal_id = a)

\* UniqueConstraint uq_user_matches_pair: may this row be inserted?
UqUserMatchesPairNoConstraint(table, id1, id2) == TRUE
UqUserMatchesPair(table, id1, id2) ==
    \A m \in table : ~(m.user_id1 = id1 /\ m.user_id2 = id2)

\* ----------------------------------------------------------- match engine
\* _normalize_match_pair for a # b (a = b raises ValueError, see NormalizeFails)
NormalizeUnordered(a, b) == <<a, b>>
NormalizeMatchPair(a, b) == IF a < b THEN <<a, b>> ELSE <<b, a>>
NormalizeNeverFails(a, b) == FALSE
NormalizeFails(a, b) == a = b

\* the select of get_or_create_match: ids of the rows of the ordered pair
SelectMatchFindsNothing(table, id1, id2) == {}
SelectMatch(table, id1, id2) ==
    {m.id : m \in {x \in table : x.user_id1 = id1 /\ x.user_id2 = id2}}

\* the exists() query of detect_mutual_like_and_create_match: has target_user
\* a 'like' on any animal owned by from_user?
MutualLikeIsNeverSeen(table, from_user_id, target_user_id) == FALSE
MutualLikeExistsAnyReaction(likes, from_user, target_user) ==
    \E l \in likes :
        /\ l.from_user_id = target_user
        /\ OwnerOf(l.animal_id) = from_user
MutualLikeExists(likes, from_user, target_user) ==
    \E l \in likes :
        /\ l.from_user_id = target_user
        /\ l.result = "like"
        /\ l.animal_id \in {a \in Animals : OwnerOf(a) = from_user}

\* ------------------------------------------------------------- requests
\* A request: who reacts to what, where the handler is, what the ORM holds
\* (existing: the AnimalLike row the select found, None if none; pair: the
\* normalized pair about to be inserted) and, once answered, the outcome.
Request(kind, u, a, pc, existing, pair, status, match, created) ==
    [kind |-> kind, user |-> u, animal |-> a, pc |-> pc, existing |-> existing,
     pair |-> pair, status |-> status, match |-> match, created |-> created]

Answered(r, status, match, created) ==
    [r EXCEPT !.pc = "done", !.status = status, !.match = match, !.created = created]

Replace(r, r2) == (reqs (-) SetToBag({r})) (+) SetToBag({r2})

InFlight == BagToSet(reqs)

\* if animal.owner_user_id == current_user.id: the caller reacts to a listing
\* of their own
IsNeverOwnAnimal(animal, u) == FALSE
IsOwnAnimal(animal, u) == animal.owner_user_id = u

\* like_animal / dislike_animal up to the select of create_or_update_like:
\* the listing must exist, be active and not be the caller's own
ReactionArrives(kind, u, a) ==
    /\ BagCardinality(reqs) < MaxRequests
    /\ LET animal == AnimalRow(a)
           found == {l.id : l \in {x \in animal_likes :
                                      x.from_user_id = u /\ x.animal_id = a}}
           r0 == Request(kind, u, a, "write_like", None, <<0, 0>>, "pending", None, FALSE)
       IN  reqs' = reqs (+) SetToBag({
             IF animal.id = None \/ animal.status # "active"
             THEN Answered(r0, "not_found", None, FALSE)
             ELSE IF IsOwnAnimal(animal, u)
             THEN Answered(r0, "bad_request", None, FALSE)
             ELSE IF found = {} THEN r0
             ELSE [r0 EXCEPT !.existing = CHOOSE i \in found : TRUE]})
    /\ UNCHANGED <<animal_likes, user_matches, varsSession, varsCalls, varsSchema, varsAccount, varsPhotos>>

like_animal(u, a) == ReactionArrives("like", u, a)
dislike_animal(u, a) == ReactionArrives("dislike", u, a)

\* existing.result = result: the UPDATE of the row the request had loaded
OverwriteResultKeepsRow(table, id, result) == table
OverwriteResult(table, id, result) ==
    {IF l.id = id THEN [l EXCEPT !.result = result] ELSE l : l \in table}

\* what the handler does once create_or_update_like has returned: like_animal
\* goes on to detect_mutual_like_and_create_match, dislike_animal answers
AfterReactionAlwaysDetects(r) == [r EXCEPT !.pc = "detect"]
AfterReaction(r) ==
    IF r.kind = "like"
    THEN [r EXCEPT !.pc = "detect"]
    ELSE [r EXCEPT !.pc = "done", !.status = "ok", !.match = None, !.created = FALSE]

\* user_matches across the commit of create_or_update_like: the flush holds
\* the AnimalLike object only, no UserMatch is added, changed or deleted
MatchesAfterReactionUnmatching(table, r) ==
    IF r.kind = "dislike"
    THEN {m \in table : {m.user_id1, m.user_id2} # {r.user, OwnerOf(r.animal)}}
    ELSE table
MatchesAfterReaction(table, r) == table

\* create_or_update_like after its select: insert a row, or overwrite result
\* of the row it loaded, and commit
create_or_update_like(r) ==
    /\ r.pc = "write_like"
    /\ IF r.existing = None
       THEN IF UqAnimalLikes(animal_likes, r.user, r.animal)
            THEN /\ animal_likes' = animal_likes \cup
                        {[id |-> NextId(animal_likes), from_user_id |-> r.user,
                          animal_id |-> r.animal, result |-> r.kind]}
                 /\ reqs' = Replace(r, AfterReaction(r))
            ELSE /\ animal_likes' = animal_likes
                 /\ reqs' = Replace(r, Answered(r, "integrity_error", None, FALSE))
       ELSE /\ animal_likes' = OverwriteResult(animal_likes, r.existing, r.kind)
            /\ reqs' = Replace(r, AfterReaction(r))
    /\ user_matches' = MatchesAfterReaction(user_matches, r)
    /\ UNCHANGED <<varsSession, varsCalls, varsSchema, varsAccount, varsPhotos>>

\* detect_mutual_like_and_create_match, and get_or_create_match up to its
\* select: all reads
detect_mutual_like_and_create_match(r) ==
    /\ r.pc = "detect"
    /\ LET animal == AnimalRow(r.animal)
           target == animal.owner_user_id
       IN  reqs' = Replace(r,
             IF animal.id = None \/ target = r.user
             THEN Answered(r, "ok", None, FALSE)
             ELSE IF ~MutualLikeExists(animal_likes, r.user, target)
             THEN Answered(r, "ok", None, FALSE)
             ELSE LET pair == NormalizeMatchPair(r.user, target)
                      found == SelectMatch(user_matches, pair[1], pair[2])
                  IN  IF found # {}
                      THEN Answered(r, "ok", CHOOSE i \in found : TRUE, FALSE)
                      ELSE [r EXCEPT !.pc = "insert_match", !.pair = pair])
    /\ UNCHANGED <<animal_likes, user_matches, varsSession, varsCalls, varsSchema, varsAccount, varsPhotos>>

\* get_or_create_match after its select found nothing: db.add(match) and
\* commit; the INSERT fails on uq_user_matches_pair and nothing catches it
get_or_create_match(r) ==
    /\ r.pc = "insert_match"
    /\ IF UqUserMatchesPair(user_matches, r.pair[1], r.pair[2])
       THEN /\ user_matches' = user_matches \cup
                  {[id |-> NextId(user_matches),
                    user_id1 |-> r.pair[1], user_id2 |-> r.pair[2]]}
            /\ reqs' = Replace(r, Answered(r, "ok", NextId(user_matches), TRUE))
       ELSE /\ user_matches' = user_matches
            /\ reqs' = Replace(r, Answered(r, "integrity_error", None, FALSE))
    /\ UNCHANGED <<animal_likes, varsSession, varsCalls, varsSchema, varsAccount, varsPhotos>>

\* the auth tables are empty and untouched while the match engine is studied
InitMatch ==
    /\ animal_likes = {}
    /\ user_matches = {}
    /\ reqs = EmptyBag
    /\ user_devices = {}
    /\ user_sessions = {}
    /\ sreqs = EmptyBag
    /\ answered = NoAnswer
    /\ nreq = 0
    /\ now = 1
    /\ call = NoCall
    /\ uq_user_devices \in SchemaBuilds
    /\ users = ConfirmedUsers
    /\ email_verification_codes = {}
    /\ creqs = EmptyBag
    /\ canswered = NoAccountAnswer
    /\ ncreq = 0
    /\ animal_photos = {}
    /\ photo_id_seq = 0
    /\ preqs = EmptyBag
    /\ panswered = NoPhotoAnswer
    /\ npreq = 0

NextMatch ==
    \/ \E u \in Users, a \in AnimalIds : like_animal(u, a)
    \/ \E u \in Users, a \in AnimalIds : dislike_animal(u, a)
    \/ \E r \in InFlight : create_or_update_like(r)
    \/ \E r \in InFlight : detect_mutual_like_and_create_match(r)
    \/ \E r \in InFlight : get_or_create_match(r)

SpecMatch == InitMatch /\ [][NextMatch]_vars

\* ------------------------------------------------------------ credential store
\* secrets.token_urlsafe(48): a value no earlier call returned; the token of
\* the k-th session row is called k
create_refresh_token(table) == NextId(table)

\* pwd_context.hash(token): a bcrypt digest of the token, never the plaintext
hash_refresh_token(token) == <<"bcrypt", token>>

\* pwd_context.verify raises instead of answering when the stored string is
\* no hash of a scheme of the context (UnknownHashError)
VerifyRaises(secret, hashed) == hashed[1] # "bcrypt"

\* pwd_context.verify(token, hashed), where it answers
verify_refresh_token(token, hashed) == hashed[1] = "bcrypt" /\ hashed[2] = token

\* hash_verification_code and verify_verification_code: the same context;
\* whatever pwd_context.verify raises is caught and answered False
hash_verification_code(code) == <<"bcrypt", code>>
verify_verification_code(code, code_hash) ==
    IF VerifyRaises(code, code_hash) THEN FALSE
    ELSE code_hash[1] = "bcrypt" /\ code_hash[2] = code

\* ------------------------------------------------------------- auth tables
\* the request headers a client sends: X-Device-Id (absent: UUID(int=0)), and
\* the address and User-Agent the session row records
DeviceUuids == {"00000000-0000-0000-0000-000000000000"}
Clients == {"c1"}
IpOf(client) == <<"ip", client>>
UserAgentOf(client) == <<"ua", client>>

\* get_user_by_phone: the row of table users with that phone (phone is
\* unique), or None
get_user_by_phone(phone) ==
    IF \E u \in users : u.phone = phone
    THEN CHOOSE u \in users : u.phone = phone
    ELSE NoUser

\* UniqueConstraint uq_user_devices_user_device: may this row be inserted?
\* The constraint is in the migration and not in the UserDevice model, so the
\* table carries it only where the migrations built the schema.
UqUserDevices(table, u, uuid) ==
    uq_user_devices => \A d \in table : ~(d.user_id = u /\ d.device_id = uuid)

\* the row with this primary key
RowById(table, id) == CHOOSE row \in table : row.id = id

\* create_session: insert an active row holding the hash of the token.
\* parent is not a column: it records which session refresh_tokens rotated
\* into this one (None for a login), so that a lineage can be followed.
CreateSessionInPlace(table, user_id, device_id, token, expires, ip, ua, parent) ==
    IF parent = None
    THEN table \cup
           {[id |-> NextId(table), user_id |-> user_id, device_id |-> device_id,
             refresh_token_hash |-> hash_refresh_token(token),
             refresh_expires_at |-> expires, ip_address |-> ip, user_agent |-> ua,
             is_current |-> TRUE, revoked_at |-> None, revoke_reason |-> "",
             parent |-> None]}
    ELSE {IF s.id = parent
          THEN [s EXCEPT !.refresh_token_hash = hash_refresh_token(token),
                         !.refresh_expires_at = expires, !.is_current = TRUE,
                         !.revoked_at = None, !.revoke_reason = ""]
          ELSE s : s \in table}
CreateSession(table, user_id, device_id, token, expires, ip, ua, parent) ==
    table \cup
      {[id |-> NextId(table), user_id |-> user_id, device_id |-> device_id,
        refresh_token_hash |-> hash_refresh_token(token),
        refresh_expires_at |-> expires, ip_address |-> ip, user_agent |-> ua,
        is_current |-> TRUE, revoked_at |-> None, revoke_reason |-> "",
        parent |-> parent]}

\* the select shared by get_session_by_refresh_token and
\* revoke_all_sessions_for_user: is_current and revoked_at IS NULL
CurrentSessionsOf(table, user_id) ==
    {s \in table : s.user_id = user_id /\ s.is_current /\ s.revoked_at = None}

\* the lookup as it would be without the user_id filter of its select
GetSessionOfAnyUser(table, user_id, token) ==
    LET match == {s \in table :
                    /\ s.is_current /\ s.revoked_at = None
                    /\ verify_refresh_token(token, s.refresh_token_hash)}
    IN  IF match = {} THEN None
        ELSE (CHOOSE s \in match : \A t \in match : s.id <= t.id).id

\* get_session_by_refresh_token: the id of the first current session of the
\* user whose hash verifies, or None; refresh_expires_at is not looked at
get_session_by_refresh_token(table, user_id, token) ==
    LET match == {s \in CurrentSessionsOf(table, user_id) :
                    verify_refresh_token(token, s.refresh_token_hash)}
    IN  IF match = {} THEN None
        ELSE (CHOOSE s \in match : \A t \in match : s.id <= t.id).id

\* revocations as they would be if they deleted the row, or lost the reason
RevokeSessionDeletingRow(table, id, reason, t) ==
    {s \in table : s.id # id}
RevokeSessionAsLogout(table, id, reason, t) ==
    {IF s.id = id
     THEN [s EXCEPT !.is_current = FALSE, !.revoked_at = t, !.revoke_reason = "logout"]
     ELSE s : s \in table}

\* revoke_session: the UPDATE the commit flushes for the loaded row, whatever
\* the row holds by then
RevokeSession(table, id, reason, t) ==
    {IF s.id = id
     THEN [s EXCEPT !.is_current = FALSE, !.revoked_at = t, !.revoke_reason = reason]
     ELSE s : s \in table}

\* the loop and commit of revoke_all_sessions_for_user over the rows it loaded
RevokeAllIgnoresExcept(table, loaded, except, reason, t) ==
    {IF s.id \in loaded
     THEN [s EXCEPT !.is_current = FALSE, !.revoked_at = t, !.revoke_reason = reason]
     ELSE s : s \in table}
RevokeAll(table, loaded, except, reason, t) ==
    {IF s.id \in loaded /\ ~(except # None /\ s.id = except)
     THEN [s EXCEPT !.is_current = FALSE, !.revoked_at = t, !.revoke_reason = reason]
     ELSE s : s \in table}

\* ----------------------------------------------------------- auth requests
\* An auth request: its inputs, where the handler is, what its ORM session
\* holds (session: the UserSession the lookup returned; device: the UserDevice
\* row; loaded: the rows revoke_all_sessions_for_user selected) and, once
\* answered, its outcome.  The clock does not advance while a request is in
\* flight (see clock_tick), so the value a handler reads once and uses later
\* is the value of now at each of its steps.
SRequest(op, user, token, password_ok, uuid, client, except) ==
    [op |-> op, user |-> user, token |-> token, password_ok |-> password_ok,
     uuid |-> uuid, client |-> client, except |-> except,
     pc |-> "arrived", session |-> None, device |-> None, loaded |-> {},
     status |-> "pending", new_session |-> None]

\* the answer to r; the rows its ORM session held are released with it
SAnswered(r, status, new_session) ==
    [r EXCEPT !.pc = "done", !.status = status, !.new_session = new_session,
              !.loaded = {}]

SInFlight == BagToSet(sreqs)

\* a request is received and has run its first statements: it is in flight as
\* r, or was answered at once
Received(r) ==
    /\ nreq < MaxSessionRequests
    /\ nreq' = nreq + 1
    /\ IF r.pc = "done"
       THEN sreqs' = sreqs /\ answered' = r
       ELSE sreqs' = sreqs (+) SetToBag({r}) /\ answered' = answered

\* the request in flight as r has run its next statements: it goes on as r2,
\* or was answered
Proceeds(r, r2) ==
    /\ nreq' = nreq
    /\ IF r2.pc = "done"
       THEN sreqs' = sreqs (-) SetToBag({r}) /\ answered' = r2
       ELSE sreqs' = (sreqs (-) SetToBag({r})) (+) SetToBag({r2}) /\ answered' = answered

\* verify_password(payload.password, user.hashed_password): password_ok is
\* what it answers for the password of the request
AnyPasswordVerifies(password_ok) == TRUE
VerifyPassword(password_ok) == password_ok

\* if not user.is_email_verified
EmailNeedNotBeVerified(user) == TRUE
IsEmailVerified(user) == user.is_email_verified

\* what the client of login sees for each rejection of the handler: the
\* status code and the detail of the HTTPException
LoginResponse(status) ==
    CASE status = "no_user_to_log_in"  -> <<401, "Incorrect phone or password">>
      [] status = "wrong_password"     -> <<401, "Incorrect phone or password">>
      [] status = "email_not_verified" -> <<400, "Email is not verified">>

\* login up to the select of upsert_device: credentials, then the device row
login(phone, password_ok, uuid, client) ==
    /\ LET user == get_user_by_phone(phone)
           r0 == SRequest("login", phone, None, password_ok, uuid, client, None)
           found == {d.id : d \in {x \in user_devices :
                                     x.user_id = user.id /\ x.device_id = uuid}}
       IN  Received(
             IF user.id = None \/ ~user.is_active \/ ~user.hashed_password
             THEN SAnswered(r0, "no_user_to_log_in", None)
             ELSE IF ~VerifyPassword(password_ok)
             THEN SAnswered(r0, "wrong_password", None)
             ELSE IF ~IsEmailVerified(user)
             THEN SAnswered(r0, "email_not_verified", None)
             ELSE IF Cardinality(found) > 1
             THEN SAnswered(r0, "multiple_results_found", None)
             ELSE [r0 EXCEPT !.pc = "upsert_device",
                             !.device = IF found = {} THEN None
                                        ELSE CHOOSE i \in found : TRUE])
    /\ UNCHANGED <<user_devices, user_sessions, now, varsMatch, varsCalls, varsSchema, varsAccount, varsPhotos>>

\* upsert_device after its select: insert the device row, or overwrite the
\* columns of the row it loaded, and commit
upsert_device(r) ==
    /\ r.op = "login" /\ r.pc = "upsert_device"
    /\ IF r.device = None
       THEN IF UqUserDevices(user_devices, r.user, r.uuid)
            THEN /\ user_devices' = user_devices \cup
                        {[id |-> NextId(user_devices), user_id |-> r.user,
                          device_id |-> r.uuid, last_ip |-> IpOf(r.client)]}
                 /\ Proceeds(r, [r EXCEPT !.pc = "create_session",
                                                   !.device = NextId(user_devices)])
            ELSE /\ user_devices' = user_devices
                 /\ Proceeds(r, SAnswered(r, "integrity_error", None))
       ELSE /\ user_devices' =
                  {IF d.id = r.device THEN [d EXCEPT !.last_ip = IpOf(r.client)] ELSE d :
                     d \in user_devices}
            /\ Proceeds(r, [r EXCEPT !.pc = "create_session"])
    /\ UNCHANGED <<user_sessions, now, varsMatch, varsCalls, varsSchema, varsAccount, varsPhotos>>

\* the create_session call of login, and the TokenPair answer
login_create_session(r) ==
    /\ r.op = "login" /\ r.pc = "create_session"
    /\ user_sessions' = CreateSession(user_sessions, r.user, r.device,
                            create_refresh_token(user_sessions), now + RefreshTTL,
                            IpOf(r.client), UserAgentOf(r.client), None)
    /\ Proceeds(r, SAnswered(r, "ok", NextId(user_sessions)))
    /\ UNCHANGED <<user_devices, now, varsMatch, varsCalls, varsSchema, varsAccount, varsPhotos>>

\* refresh_tokens up to the session lookup and the checks on what it returned
refresh_tokens(phone, token) ==
    /\ LET user == get_user_by_phone(phone)
           r0 == SRequest("refresh", phone, token, FALSE, NoUuid, NoClient, None)
           session == get_session_by_refresh_token(user_sessions, user.id, token)
       IN  Received(
             IF user.id = None \/ ~user.is_active
             THEN SAnswered(r0, "invalid_credentials", None)
             ELSE IF session = None
                       \/ ~RowById(user_sessions, session).is_current
                       \/ RowById(user_sessions, session).revoked_at # None
             THEN SAnswered(r0, "invalid_refresh_token", None)
             ELSE [r0 EXCEPT !.pc = "revoke", !.session = session])
    /\ UNCHANGED <<user_devices, user_sessions, now, varsMatch, varsCalls, varsSchema, varsAccount, varsPhotos>>

\* refresh_tokens: the expiry check on the loaded row, then the commit of
\* revoke_session with reason 'expired' or 'rotation'
refresh_revoke_session(r) ==
    /\ r.op = "refresh" /\ r.pc = "revoke"
    /\ IF RowById(user_sessions, r.session).refresh_expires_at < now
       THEN /\ user_sessions' = RevokeSession(user_sessions, r.session, "expired", now)
            /\ Proceeds(r, SAnswered(r, "refresh_token_expired", None))
       ELSE /\ user_sessions' = RevokeSession(user_sessions, r.session, "rotation", now)
            /\ Proceeds(r, [r EXCEPT !.pc = "create_session"])
    /\ UNCHANGED <<user_devices, now, varsMatch, varsCalls, varsSchema, varsAccount, varsPhotos>>

\* refresh_tokens: the create_session call that follows the revoke, carrying
\* the old row's device_id, ip_address and user_agent, and the TokenPair answer
refresh_create_session(r) ==
    /\ r.op = "refresh" /\ r.pc = "create_session"
    /\ LET old == RowById(user_sessions, r.session)
       IN  user_sessions' = CreateSession(user_sessions, r.user, old.device_id,
                               create_refresh_token(user_sessions), now + RefreshTTL,
                               old.ip_address, old.user_agent, r.session)
    /\ Proceeds(r, SAnswered(r, "ok", NextId(user_sessions)))
    /\ UNCHANGED <<user_devices, now, varsMatch, varsCalls, varsSchema, varsAccount, varsPhotos>>

\* what the client of refresh_tokens sees for each rejection: the status code
\* and the detail of the HTTPException
RefreshResponse(status) ==
    CASE status = "invalid_credentials"   -> <<401, "Invalid credentials">>
      [] status = "invalid_refresh_token" -> <<401, "Invalid refresh token">>
      [] status = "refresh_token_expired" -> <<401, "Refresh token expired">>

\* logout up to the session lookup; current_user comes from the access token
logout(user_id, token) ==
    /\ LET r0 == SRequest("logout", user_id, token, FALSE, NoUuid, NoClient, None)
           session == get_session_by_refresh_token(user_sessions, user_id, token)
       IN  Received(
             IF session = None
             THEN SAnswered(r0, "already_logged_out", None)
             ELSE [r0 EXCEPT !.pc = "revoke", !.session = session])
    /\ UNCHANGED <<user_devices, user_sessions, now, varsMatch, varsCalls, varsSchema, varsAccount, varsPhotos>>

\* logout: the commit of revoke_session with reason 'logout'
logout_revoke_session(r) ==
    /\ r.op = "logout" /\ r.pc = "revoke"
    /\ user_sessions' = RevokeSession(user_sessions, r.session, "logout", now)
    /\ Proceeds(r, SAnswered(r, "ok", None))
    /\ UNCHANGED <<user_devices, now, varsMatch, varsCalls, varsSchema, varsAccount, varsPhotos>>

\* revoke_all_sessions_for_user up to its select (reason: the default)
revoke_all_sessions_for_user(user_id, except) ==
    /\ LET r0 == SRequest("revoke_all", user_id, None, FALSE, NoUuid, NoClient, except)
       IN  Received(
             [r0 EXCEPT !.pc = "commit",
                        !.loaded = {s.id : s \in CurrentSessionsOf(user_sessions, user_id)}])
    /\ UNCHANGED <<user_devices, user_sessions, now, varsMatch, varsCalls, varsSchema, varsAccount, varsPhotos>>

\* revoke_all_sessions_for_user: the loop over the loaded rows and the commit
revoke_all_commit(r) ==
    /\ r.op = "revoke_all" /\ r.pc = "commit"
    /\ user_sessions' = RevokeAll(user_sessions, r.loaded, r.except, "bulk_revoke", now)
    /\ Proceeds(r, SAnswered(r, "ok", None))
    /\ UNCHANGED <<user_devices, now, varsMatch, varsCalls, varsSchema, varsAccount, varsPhotos>>

\* a request stops between two awaits (client timeout, cancelled task, worker
\* crash): the AsyncSession closes, what was committed stays committed
request_stops(r) ==
    /\ Proceeds(r, SAnswered(r, "aborted", None))
    /\ UNCHANGED <<user_devices, user_sessions, now, varsMatch, varsCalls, varsSchema, varsAccount, varsPhotos>>

\* the clock advances by one unit (the 30 days of a refresh token); a request
\* lasts far less than that, so no request is in flight when it does
clock_tick ==
    /\ now < MaxTime
    /\ sreqs = EmptyBag
    /\ now' = now + 1
    /\ UNCHANGED <<user_devices, user_sessions, sreqs, answered, nreq, varsMatch, varsCalls, varsSchema, varsAccount, varsPhotos>>

\* the match tables are empty and untouched while the session ledger is studied
InitSession ==
    /\ animal_likes = {}
    /\ user_matches = {}
    /\ reqs = EmptyBag
    /\ user_devices = {}
    /\ user_sessions = {}
    /\ sreqs = EmptyBag
    /\ answered = NoAnswer
    /\ nreq = 0
    /\ now = 1
    /\ call = NoCall
    /\ uq_user_devices \in SchemaBuilds
    /\ users = ConfirmedUsers
    /\ email_verification_codes = {}
    /\ creqs = EmptyBag
    /\ canswered = NoAccountAnswer
    /\ ncreq = 0
    /\ animal_photos = {}
    /\ photo_id_seq = 0
    /\ preqs = EmptyBag
    /\ panswered = NoPhotoAnswer
    /\ npreq = 0

\* the tokens a client can present: those issued so far, and one never issued
Tokens == 1..NextId(user_sessions)

\* the phones a client can present: those of the users, and one of no user
Phones == {u.phone : u \in users} \cup {None}

NextSession ==
    \/ \E phone \in Phones, ok \in BOOLEAN, uuid \in DeviceUuids, c \in Clients :
          \* for a phone of no user the password is compared with nothing
          (phone = None => ok) /\ login(phone, ok, uuid, c)
    \/ \E r \in SInFlight : upsert_device(r)
    \/ \E r \in SInFlight : login_create_session(r)
    \/ \E phone \in Phones, token \in Tokens : refresh_tokens(phone, token)
    \/ \E r \in SInFlight : refresh_revoke_session(r)
    \/ \E r \in SInFlight : refresh_create_session(r)
    \/ \E u \in Users, token \in Tokens : logout(u, token)
    \/ \E r \in SInFlight : logout_revoke_session(r)
    \/ \E u \in Users, e \in {None} \cup {s.id : s \in user_sessions} :
          \* an id of no session of u excepts nothing, as None does
          (e # None => RowById(user_sessions, e).user_id = u)
              /\ revoke_all_sessions_for_user(u, e)
    \/ \E r \in SInFlight : revoke_all_commit(r)
    \/ \E r \in SInFlight : request_stops(r)
    \/ clock_tick

SpecSession == InitSession /\ [][NextSession]_vars

\* the session ledger with every kind of user row in table users
InitLogin ==
    /\ animal_likes = {}
    /\ user_matches = {}
    /\ reqs = EmptyBag
    /\ user_devices = {}
    /\ user_sessions = {}
    /\ sreqs = EmptyBag
    /\ answered = NoAnswer
    /\ nreq = 0
    /\ now = 1
    /\ call = NoCall
    /\ uq_user_devices \in SchemaBuilds
    /\ users = ConfirmedUsers \cup OtherUsers
    /\ email_verification_codes = {}
    /\ creqs = EmptyBag
    /\ canswered = NoAccountAnswer
    /\ ncreq = 0
    /\ animal_photos = {}
    /\ photo_id_seq = 0
    /\ preqs = EmptyBag
    /\ panswered = NoPhotoAnswer
    /\ npreq = 0

SpecLogin == InitLogin /\ [][NextSession]_vars

\* ------------------------------------------------ registration by e-mail
\* A register or confirm request: its inputs, where the handler is, and what
\* its ORM session holds: user, the id of the User row it loaded (None if
\* none), code_row, the id of the EmailVerificationCode row it loaded, and
\* attempt_count, the value that row was loaded with.
CRequest(op, email, code) ==
    [op |-> op, email |-> email, code |-> code, pc |-> "arrived", user |-> None,
     code_row |-> None, attempt_count |-> 0, status |-> "pending"]

CAnswered(r, status) == [r EXCEPT !.pc = "done", !.status = status]

CInFlight == BagToSet(creqs)

CReceived(r) ==
    /\ ncreq < MaxAccountRequests
    /\ ncreq' = ncreq + 1
    /\ IF r.pc = "done"
       THEN creqs' = creqs /\ canswered' = r
       ELSE creqs' = creqs (+) SetToBag({r}) /\ canswered' = canswered

CProceeds(r, r2) ==
    /\ ncreq' = ncreq
    /\ IF r2.pc = "done"
       THEN creqs' = creqs (-) SetToBag({r}) /\ canswered' = r2
       ELSE creqs' = (creqs (-) SetToBag({r})) (+) SetToBag({r2}) /\ canswered' = canswered

\* select(User).where(User.email == payload.email)
get_user_by_email(email) ==
    IF \E u \in users : u.email = email
    THEN CHOOSE u \in users : u.email = email
    ELSE NoUser

\* register up to its select: a confirmed e-mail is refused
register(email) ==
    /\ LET user == get_user_by_email(email)
           r0 == CRequest("register", email, None)
       IN  CReceived(
             IF user.id # None /\ user.is_email_verified
             THEN CAnswered(r0, "already_registered")
             ELSE [r0 EXCEPT !.pc = "commit", !.user = user.id])
    /\ UNCHANGED <<users, email_verification_codes, varsMatch, varsSession, varsCalls,
                   varsSchema, varsPhotos>>

\* generate_numeric_code and hash_verification_code: the code of the k-th row
\* is called k.  wrong_guesses is not a column: it counts the wrong codes
\* that were checked against the row.
NewCode(table, user_id, email, t) ==
    [id |-> NextId(table), user_id |-> user_id, email |-> email,
     purpose |-> "register", code_hash |-> hash_verification_code(NextId(table)),
     expires_at |-> t + CodeTTL, attempt_count |-> 0,
     max_attempts |-> EmailVerificationMaxAttempts, consumed_at |-> None,
     wrong_guesses |-> 0]

\* register after its select: the User row (INSERT, or the UPDATE of
\* hashed_password), the EmailVerificationCode row, and the commit; users.email
\* is unique
register_commit(r) ==
    /\ r.op = "register" /\ r.pc = "commit"
    /\ IF r.user = None
       THEN IF \E u \in users : u.email = r.email
            THEN /\ UNCHANGED <<users, email_verification_codes>>
                 /\ CProceeds(r, CAnswered(r, "integrity_error"))
            ELSE /\ users' = users \cup
                       {UserRow(NextId(users), r.email, TRUE, TRUE, FALSE)}
                 /\ email_verification_codes' = email_verification_codes \cup
                       {NewCode(email_verification_codes, NextId(users), r.email, now)}
                 /\ CProceeds(r, CAnswered(r, "accepted"))
       ELSE /\ users' = users
            /\ email_verification_codes' = email_verification_codes \cup
                  {NewCode(email_verification_codes, r.user, r.email, now)}
            /\ CProceeds(r, CAnswered(r, "accepted"))
    /\ UNCHANGED <<varsMatch, varsSession, varsCalls, varsSchema, varsPhotos>>

\* the select of confirm_email: the rows of the user and e-mail with purpose
\* 'register', consumed_at IS NULL and expires_at > now
ActiveCodes(table, user_id, email, t) ==
    {c \in table : /\ c.user_id = user_id /\ c.email = email
                   /\ c.purpose = "register"
                   /\ c.consumed_at = None /\ c.expires_at > t}

\* order_by(created_at.desc()).limit(1): rows are created in the order of
\* their ids
LatestCode(codes) == CHOOSE c \in codes : \A d \in codes : d.id <= c.id

\* if code_row.attempt_count >= code_row.max_attempts
AttemptsExhausted(code_row) == code_row.attempt_count >= code_row.max_attempts

\* verify_verification_code(payload.code, code_row.code_hash)
CodeVerifies(code, code_hash) == verify_verification_code(code, code_hash)

\* confirm_email up to the check of the code: the user, the latest active
\* code row, the attempts it has left, and the verification
confirm_email(email, code) ==
    /\ LET user == get_user_by_email(email)
           r0 == CRequest("confirm", email, code)
           codes == ActiveCodes(email_verification_codes, user.id, email, now)
       IN  CReceived(
             IF user.id = None
             THEN CAnswered(r0, "user_not_found")
             ELSE IF user.is_email_verified
             THEN CAnswered([r0 EXCEPT !.user = user.id], "email_already_verified")
             ELSE IF codes = {}
             THEN CAnswered([r0 EXCEPT !.user = user.id], "no_active_code")
             ELSE IF AttemptsExhausted(LatestCode(codes))
             THEN CAnswered([r0 EXCEPT !.user = user.id,
                                       !.code_row = LatestCode(codes).id],
                            "max_attempts_exceeded")
             ELSE [r0 EXCEPT !.user = user.id, !.code_row = LatestCode(codes).id,
                             !.attempt_count = LatestCode(codes).attempt_count,
                             !.pc = IF CodeVerifies(code, LatestCode(codes).code_hash)
                                    THEN "consume" ELSE "count_attempt"])
    /\ UNCHANGED <<users, email_verification_codes, varsMatch, varsSession, varsCalls,
                   varsSchema, varsPhotos>>

\* confirm_email for a wrong code: code_row.attempt_count += 1 on the loaded
\* object (UPDATE ... SET attempt_count = loaded value + 1) and the commit
confirm_count_attempt(r) ==
    /\ r.op = "confirm" /\ r.pc = "count_attempt"
    /\ email_verification_codes' =
          {IF c.id = r.code_row
           THEN [c EXCEPT !.attempt_count = r.attempt_count + 1,
                          !.wrong_guesses = c.wrong_guesses + 1]
           ELSE c : c \in email_verification_codes}
    /\ users' = users
    /\ CProceeds(r, CAnswered(r, "invalid_code"))
    /\ UNCHANGED <<varsMatch, varsSession, varsCalls, varsSchema, varsPhotos>>

\* confirm_email for the right code: consumed_at = now, is_email_verified =
\* True, and the commit
confirm_consume(r) ==
    /\ r.op = "confirm" /\ r.pc = "consume"
    /\ email_verification_codes' =
          {IF c.id = r.code_row THEN [c EXCEPT !.consumed_at = now] ELSE c :
             c \in email_verification_codes}
    /\ users' = {IF u.id = r.user THEN [u EXCEPT !.is_email_verified = TRUE] ELSE u :
                   u \in users}
    /\ CProceeds(r, CAnswered(r, "email_verified"))
    /\ UNCHANGED <<varsMatch, varsSession, varsCalls, varsSchema, varsPhotos>>

\* the clock advances by one tick (the lifetime of a code); a request lasts far
\* less than that, so no request is in flight when it does
account_clock_tick ==
    /\ now < MaxTime
    /\ creqs = EmptyBag
    /\ now' = now + 1
    /\ UNCHANGED <<user_devices, user_sessions, sreqs, answered, nreq, varsMatch,
                   varsCalls, varsSchema, varsAccount, varsPhotos>>

\* the e-mail addresses a client can name, and the codes it can present: those
\* sent so far, and one never sent
Emails == 1..NumEmails
CodeInputs == 1..NextId(email_verification_codes)

\* nobody has registered yet
InitAccount ==
    /\ animal_likes = {}
    /\ user_matches = {}
    /\ reqs = EmptyBag
    /\ user_devices = {}
    /\ user_sessions = {}
    /\ sreqs = EmptyBag
    /\ answered = NoAnswer
    /\ nreq = 0
    /\ now = 1
    /\ call = NoCall
    /\ uq_user_devices \in SchemaBuilds
    /\ users = {}
    /\ email_verification_codes = {}
    /\ creqs = EmptyBag
    /\ canswered = NoAccountAnswer
    /\ ncreq = 0
    /\ animal_photos = {}
    /\ photo_id_seq = 0
    /\ preqs = EmptyBag
    /\ panswered = NoPhotoAnswer
    /\ npreq = 0

NextAccount ==
    \/ \E email \in Emails : register(email)
    \/ \E r \in CInFlight : register_commit(r)
    \/ \E email \in Emails, code \in CodeInputs : confirm_email(email, code)
    \/ \E r \in CInFlight : confirm_count_attempt(r)
    \/ \E r \in CInFlight : confirm_consume(r)
    \/ account_clock_tick

SpecAccount == InitAccount /\ [][NextAccount]_vars

\* ------------------------------------------------------- the photos of an animal
\* A photo request of the owner of the animal.  get_animal_by_id loads the
\* animal with its photos (selectinload) and the reads that follow it come
\* before any write, so a request reads the table once, as it arrives: loaded
\* holds the AnimalPhoto objects of its ORM session.  The session is made with
\* expire_on_commit=False: a later select of the same request finds the rows
\* there are by then, with the attribute values the session already holds.
PRequest(op, photo, ordered_ids) ==
    [op |-> op, photo |-> photo, ordered_ids |-> ordered_ids, pc |-> "arrived",
     loaded |-> {}, count |-> 0, was_primary |-> FALSE, status |-> "pending"]

PAnswered(r, status) == [r EXCEPT !.pc = "done", !.status = status, !.loaded = {}]

PInFlight == BagToSet(preqs)

PReceived(r) ==
    /\ npreq < MaxPhotoRequests
    /\ npreq' = npreq + 1
    /\ IF r.pc = "done"
       THEN preqs' = preqs /\ panswered' = r
       ELSE preqs' = preqs (+) SetToBag({r}) /\ panswered' = panswered

PProceeds(r, r2) ==
    /\ npreq' = npreq
    /\ IF r2.pc = "done"
       THEN preqs' = preqs (-) SetToBag({r}) /\ panswered' = r2
       ELSE preqs' = (preqs (-) SetToBag({r})) (+) SetToBag({r2}) /\ panswered' = panswered

PhotoIds(table) == {p.id : p \in table}
PhotoById(table, id) == CHOOSE p \in table : p.id = id

\* the flush of the commit: an UPDATE for each loaded object whose attribute
\* differs from the value it was loaded with; an UPDATE that matches no row
\* raises StaleDataError
FlushIsStale(table, changed) == \E id \in changed : id \notin PhotoIds(table)

\* upload_animal_photo up to the count of create_animal_photo
upload_animal_photo ==
    /\ PReceived([PRequest("upload", None, <<>>) EXCEPT
                    !.pc = "insert", !.count = Cardinality(animal_photos)])
    /\ UNCHANGED <<animal_photos, photo_id_seq, varsMatch, varsSession, varsCalls,
                   varsSchema, varsAccount>>

\* is_primary = count == 0
FirstPhotoIsPrimary(count) == count = 0

\* create_animal_photo after its count: the INSERT and the commit
create_animal_photo(r) ==
    /\ r.op = "upload" /\ r.pc = "insert"
    /\ photo_id_seq' = photo_id_seq + 1
    /\ animal_photos' = animal_photos \cup
          {[id |-> photo_id_seq + 1, is_primary |-> FirstPhotoIsPrimary(r.count),
            position |-> r.count]}
    /\ PProceeds(r, PAnswered(r, "created"))
    /\ UNCHANGED <<varsMatch, varsSession, varsCalls, varsSchema, varsAccount>>

\* set_animal_primary_photo up to the list of set_primary_photo
set_animal_primary_photo(photo_id) ==
    /\ LET r0 == PRequest("set_primary", photo_id, <<>>)
       IN  PReceived(
             IF photo_id \notin PhotoIds(animal_photos)
             THEN PAnswered(r0, "photo_not_found")
             ELSE [r0 EXCEPT !.pc = "commit", !.loaded = animal_photos])
    /\ UNCHANGED <<animal_photos, photo_id_seq, varsMatch, varsSession, varsCalls,
                   varsSchema, varsAccount>>

\* set_primary_photo: p.is_primary = p.id == photo_id for the photos it
\* listed, and the commit
set_primary_photo(r) ==
    /\ r.op = "set_primary" /\ r.pc = "commit"
    /\ LET changed == {p.id : p \in {q \in r.loaded : q.is_primary # (q.id = r.photo)}}
       IN  IF FlushIsStale(animal_photos, changed)
           THEN /\ animal_photos' = animal_photos
                /\ PProceeds(r, PAnswered(r, "stale_data_error"))
           ELSE /\ animal_photos' =
                      {IF p.id \in changed
                       THEN [p EXCEPT !.is_primary = (p.id = r.photo)] ELSE p :
                         p \in animal_photos}
                /\ PProceeds(r, PAnswered(r, "ok"))
    /\ UNCHANGED <<photo_id_seq, varsMatch, varsSession, varsCalls, varsSchema,
                   varsAccount>>

\* the elements of ordered_ids, and the index enumerate gives an id last
IdsOf(ordered_ids) == {ordered_ids[i] : i \in 1..Len(ordered_ids)}
LastIndexOf(ordered_ids, id) ==
    (CHOOSE i \in 1..Len(ordered_ids) :
        /\ ordered_ids[i] = id
        /\ \A j \in 1..Len(ordered_ids) : ordered_ids[j] = id => j <= i) - 1

\* if set(ordered_ids) != set(photos_map.keys()): raise ValueError
OrderedIdsMismatch(ordered_ids, table) == IdsOf(ordered_ids) # PhotoIds(table)

\* reorder_animal_photos up to the check of reorder_photos
reorder_animal_photos(ordered_ids) ==
    /\ LET r0 == PRequest("reorder", None, ordered_ids)
       IN  PReceived(
             IF OrderedIdsMismatch(ordered_ids, animal_photos)
             THEN PAnswered(r0, "bad_request")
             ELSE [r0 EXCEPT !.pc = "commit", !.loaded = animal_photos])
    /\ UNCHANGED <<animal_photos, photo_id_seq, varsMatch, varsSession, varsCalls,
                   varsSchema, varsAccount>>

\* reorder_photos: photos_map[pid].position = idx over enumerate(ordered_ids),
\* and the commit
reorder_photos(r) ==
    /\ r.op = "reorder" /\ r.pc = "commit"
    /\ LET changed == {p.id : p \in {q \in r.loaded :
                                        q.position # LastIndexOf(r.ordered_ids, q.id)}}
       IN  IF FlushIsStale(animal_photos, changed)
           THEN /\ animal_photos' = animal_photos
                /\ PProceeds(r, PAnswered(r, "stale_data_error"))
           ELSE /\ animal_photos' =
                      {IF p.id \in changed
                       THEN [p EXCEPT !.position = LastIndexOf(r.ordered_ids, p.id)]
                       ELSE p : p \in animal_photos}
                /\ PProceeds(r, PAnswered(r, "ok"))
    /\ UNCHANGED <<photo_id_seq, varsMatch, varsSession, varsCalls, varsSchema,
                   varsAccount>>

\* delete_animal_photo_endpoint up to delete_photo: was_primary is read from
\* the photo as loaded
delete_animal_photo_endpoint(photo_id) ==
    /\ LET r0 == PRequest("delete", photo_id, <<>>)
       IN  PReceived(
             IF photo_id \notin PhotoIds(animal_photos)
             THEN PAnswered(r0, "photo_not_found")
             ELSE [r0 EXCEPT !.pc = "delete", !.loaded = animal_photos,
                             !.was_primary = PhotoById(animal_photos, photo_id).is_primary])
    /\ UNCHANGED <<animal_photos, photo_id_seq, varsMatch, varsSession, varsCalls,
                   varsSchema, varsAccount>>

\* delete_photo: the DELETE and its commit (a DELETE that matches no row only
\* warns); it goes on to look for a new primary photo if it deleted one
delete_photo(r) ==
    /\ r.op = "delete" /\ r.pc = "delete"
    /\ animal_photos' = {p \in animal_photos : p.id # r.photo}
    /\ PProceeds(r, IF r.was_primary
                    THEN [r EXCEPT !.pc = "list",
                                   !.loaded = {p \in r.loaded : p.id # r.photo}]
                    ELSE PAnswered(r, "ok"))
    /\ UNCHANGED <<photo_id_seq, varsMatch, varsSession, varsCalls, varsSchema,
                   varsAccount>>

\* the photos list_photos_for_animal returns to a request: the rows there are,
\* as the objects its session holds where it holds them
Listed(table, loaded) ==
    {IF p.id \in PhotoIds(loaded) THEN PhotoById(loaded, p.id) ELSE p : p \in table}

\* min(photos, key=position) over the list ordered by position, id
FirstPhoto(photos) ==
    CHOOSE p \in photos :
        \A q \in photos : p.position < q.position
                             \/ (p.position = q.position /\ p.id <= q.id)

\* delete_photo after its commit: the list, and the choice of the new primary
delete_photo_list(r) ==
    /\ r.op = "delete" /\ r.pc = "list"
    /\ LET photos == Listed(animal_photos, r.loaded)
       IN  PProceeds(r,
             IF photos # {} /\ ~\E p \in photos : p.is_primary
             THEN [r EXCEPT !.pc = "promote", !.photo = FirstPhoto(photos).id,
                            !.loaded = photos]
             ELSE PAnswered(r, "ok"))
    /\ UNCHANGED <<animal_photos, photo_id_seq, varsMatch, varsSession, varsCalls,
                   varsSchema, varsAccount>>

\* delete_photo: first.is_primary = True and the second commit
delete_photo_promote(r) ==
    /\ r.op = "delete" /\ r.pc = "promote"
    /\ IF FlushIsStale(animal_photos, {r.photo})
       THEN /\ animal_photos' = animal_photos
            /\ PProceeds(r, PAnswered(r, "stale_data_error"))
       ELSE /\ animal_photos' =
                  {IF p.id = r.photo THEN [p EXCEPT !.is_primary = TRUE] ELSE p :
                     p \in animal_photos}
            /\ PProceeds(r, PAnswered(r, "ok"))
    /\ UNCHANGED <<photo_id_seq, varsMatch, varsSession, varsCalls, varsSchema,
                   varsAccount>>

\* the photo ids a client can name: those given so far, and one never given
PhotoIdInputs == 1..(photo_id_seq + 1)

\* the photo_ids of a reorder request: the lists of up to MaxOrderedIds ids
OrderedIdsInputs ==
    UNION {[1..n -> PhotoIdInputs] : n \in 0..MaxOrderedIds}

NextPhotos ==
    \/ upload_animal_photo
    \/ \E r \in PInFlight : create_animal_photo(r)
    \/ \E id \in PhotoIdInputs : set_animal_primary_photo(id)
    \/ \E r \in PInFlight : set_primary_photo(r)
    \/ \E ids \in OrderedIdsInputs : reorder_animal_photos(ids)
    \/ \E r \in PInFlight : reorder_photos(r)
    \/ \E id \in PhotoIdInputs : delete_animal_photo_endpoint(id)
    \/ \E r \in PInFlight : delete_photo(r)
    \/ \E r \in PInFlight : delete_photo_list(r)
    \/ \E r \in PInFlight : delete_photo_promote(r)

SpecPhotos == InitMatch /\ [][NextPhotos]_vars

\* ------------------------------------------------- the two parts together
\* like/dislike requests and auth requests served by one process against one
\* database; MaxCoreRequests bounds the requests of both kinds together
CoreBudget == BagCardinality(reqs) + nreq <= MaxCoreRequests

NextCore ==
    \/ NextMatch /\ CoreBudget'
    \/ NextSession /\ CoreBudget'

SpecCore == InitMatch /\ [][NextCore]_vars

\* ------------------------------------------------- functions called directly
\* The repository and security functions take their arguments from whoever
\* calls them; here each is called on its own with arguments the handlers
\* never pass, and runs to its end with no other request in between.
UserIds == 1..MaxUserId

\* the outcome of the call: the exception it raised ("" if none), or its result
Called(fn, args, raised, result) ==
    [n |-> call.n + 1, fn |-> fn, args |-> args, raised |-> raised, result |-> result]

\* _normalize_match_pair(user_a_id, user_b_id)
normalize_match_pair(a, b) ==
    /\ call.n < MaxCalls
    /\ call' = IF NormalizeFails(a, b)
               THEN Called("_normalize_match_pair", <<a, b>>, "ValueError", <<>>)
               ELSE Called("_normalize_match_pair", <<a, b>>, "", NormalizeMatchPair(a, b))
    /\ UNCHANGED <<varsMatch, varsSession, varsSchema, varsAccount, varsPhotos>>

\* get_or_create_match(db, user_a_id, user_b_id): normalize, select, and
\* insert if the select found nothing
get_or_create_match_of(a, b) ==
    /\ call.n < MaxCalls
    /\ IF NormalizeFails(a, b)
       THEN /\ call' = Called("get_or_create_match", <<a, b>>, "ValueError", <<>>)
            /\ user_matches' = user_matches
       ELSE LET pair == NormalizeMatchPair(a, b)
                found == SelectMatch(user_matches, pair[1], pair[2])
            IN  IF found # {}
                THEN /\ call' = Called("get_or_create_match", <<a, b>>, "",
                                       <<CHOOSE i \in found : TRUE, FALSE>>)
                     /\ user_matches' = user_matches
                ELSE /\ call' = Called("get_or_create_match", <<a, b>>, "",
                                       <<NextId(user_matches), TRUE>>)
                     /\ user_matches' = user_matches \cup
                           {[id |-> NextId(user_matches),
                             user_id1 |-> pair[1], user_id2 |-> pair[2]]}
    /\ UNCHANGED <<animal_likes, reqs, varsSession, varsSchema, varsAccount, varsPhotos>>

\* the values create_or_update_like can be given as result
Results == {"like", "dislike", "superlike", ""}

\* if result not in ("like", "dislike"): raise ValueError
ResultIsAlwaysValid(result) == TRUE
ResultIsValid(result) == result \in {"like", "dislike"}

\* create_or_update_like(db, from_user_id, animal_id, result): the check of
\* result, the select, and the insert or the update
create_or_update_like_of(u, a, result) ==
    /\ call.n < MaxCalls
    /\ IF ~ResultIsValid(result)
       THEN /\ call' = Called("create_or_update_like", <<u, a, result>>, "ValueError", <<>>)
            /\ animal_likes' = animal_likes
       ELSE LET found == {l.id : l \in {x \in animal_likes :
                                          x.from_user_id = u /\ x.animal_id = a}}
            IN  IF found = {}
                THEN /\ call' = Called("create_or_update_like", <<u, a, result>>, "",
                                       <<NextId(animal_likes), result>>)
                     /\ animal_likes' = animal_likes \cup
                           {[id |-> NextId(animal_likes), from_user_id |-> u,
                             animal_id |-> a, result |-> result]}
                ELSE /\ call' = Called("create_or_update_like", <<u, a, result>>, "",
                                       <<CHOOSE i \in found : TRUE, result>>)
                     /\ animal_likes' = OverwriteResult(animal_likes,
                                           CHOOSE i \in found : TRUE, result)
    /\ UNCHANGED <<user_matches, reqs, varsSession, varsSchema, varsAccount, varsPhotos>>

\* A bearer token as a client can present it: whether it parses as a JWT,
\* whether its signature verifies under jwt_secret_key, and the claims of its
\* payload: exp (on the clock of now), type ("" if absent) and sub (the decimal
\* user id create_access_token writes, a string that is no integer, or "" if
\* absent).  The claims of a token that does not parse are never read.
TokenTypes == {"access", "refresh", ""}
Subs == {"1", "2", "abc", ""}
BearerTokens ==
    [wellformed : BOOLEAN, signature_ok : BOOLEAN, exp : (now - 1)..(now + 1),
     type : TokenTypes, sub : Subs]

\* decode_token: jwt.decode raises a JWTError for a token that does not
\* parse, whose signature does not verify or whose exp is past (exp < now);
\* decode_token turns each of them into ValueError("Invalid token")
decode_token(token, t) ==
    IF ~token.wellformed \/ ~token.signature_ok \/ token.exp < t
    THEN [raised |-> "ValueError", payload |-> <<>>]
    ELSE [raised |-> "", payload |-> [exp |-> token.exp, type |-> token.type,
                                      sub |-> token.sub]]

\* payload.get("type") != "access"
AnyTypeIsAccess(payload) == TRUE
IsAccessType(payload) == payload.type = "access"

\* int(sub): the user id, or None where int raises ValueError
IntOfSub(sub) ==
    CASE sub = "1" -> 1
      [] sub = "2" -> 2
      [] OTHER -> None

\* unauthorized = HTTPException(401, "Could not validate credentials")
Unauthorized == "401 Could not validate credentials"

\* get_current_user up to the user id it reads from the token: decode_token,
\* the type check, the sub claim and int(sub); each failure raises the one
\* unauthorized exception
get_current_user(token) ==
    /\ call.n < MaxCalls
    /\ LET decoded == decode_token(token, now)
       IN  call' =
             IF decoded.raised # ""
             THEN Called("get_current_user", <<token>>, Unauthorized, <<>>)
             ELSE IF ~IsAccessType(decoded.payload)
             THEN Called("get_current_user", <<token>>, Unauthorized, <<>>)
             ELSE IF decoded.payload.sub = ""
             THEN Called("get_current_user", <<token>>, Unauthorized, <<>>)
             ELSE IF IntOfSub(decoded.payload.sub) = None
             THEN Called("get_current_user", <<token>>, Unauthorized, <<>>)
             ELSE Called("get_current_user", <<token>>, "",
                         <<IntOfSub(decoded.payload.sub)>>)
    /\ UNCHANGED <<varsMatch, varsSession, varsSchema, varsAccount, varsPhotos>>

\* the secrets and stored strings the verify functions are called with: two
\* secrets, their hashes, and a stored string that is no bcrypt hash
Secrets == 1..2
StoredHashes == {hash_refresh_token(k) : k \in Secrets} \cup {<<"", 0>>}

\* verify_refresh_token(token, hashed): no try around pwd_context.verify
verify_refresh_token_of(token, hashed) ==
    /\ call.n < MaxCalls
    /\ call' = IF VerifyRaises(token, hashed)
               THEN Called("verify_refresh_token", <<token, hashed>>, "UnknownHashError", <<>>)
               ELSE Called("verify_refresh_token", <<token, hashed>>, "",
                           <<verify_refresh_token(token, hashed)>>)
    /\ UNCHANGED <<varsMatch, varsSession, varsSchema, varsAccount, varsPhotos>>

\* verify_verification_code(code, code_hash)
verify_verification_code_of(code, code_hash) ==
    /\ call.n < MaxCalls
    /\ call' = Called("verify_verification_code", <<code, code_hash>>, "",
                      <<verify_verification_code(code, code_hash)>>)
    /\ UNCHANGED <<varsMatch, varsSession, varsSchema, varsAccount, varsPhotos>>

NextCalls ==
    \/ \E a \in UserIds, b \in UserIds : normalize_match_pair(a, b)
    \/ \E a \in UserIds, b \in UserIds : get_or_create_match_of(a, b)
    \/ \E u \in Users, a \in Animals, result \in Results :
          create_or_update_like_of(u, a, result)
    \/ \E token \in BearerTokens : get_current_user(token)
    \/ \E token \in Secrets, hashed \in StoredHashes : verify_refresh_token_of(token, hashed)
    \/ \E code \in Secrets, hashed \in StoredHashes : verify_verification_code_of(code, hashed)

SpecCalls == InitMatch /\ [][NextCalls]_vars

\* ------------------------------------------------- claims on the match engine
\* rows of user_matches that join users a and b, in either column order
MatchRowsOf(a, b) ==
    {m \in user_matches : {m.user_id1, m.user_id2} = {a, b}}

\* number of requests of the bag (with multiplicity) that satisfy P
CountReqs(P(_)) ==
    LET S == {e \in DOMAIN reqs : P(e)}
    IN  BagCardinality([e \in S |-> reqs[e]])

\* r has run get_or_create_match to its end: it found the row, or attempted the insert
CalledGetOrCreate(r) ==
    r.pc = "done" /\ (r.match # None \/ r.pair # <<0, 0>>)

\* the unordered pair a request's get_or_create_match call is about
PairOfCall(r) == {r.user, OwnerOf(r.animal)}

\* C1: in every reachable state, whatever the interleaving of the two users'
\* like requests, user_matches holds at most one row per unordered pair of
\* distinct users.
C1_AtMostOneMatchPerPair ==
    \A a \in Users, b \in Users :
        a # b => Cardinality(MatchRowsOf(a, b)) <= 1

\* C1 witness: both users' requests raced to the insert; one row was inserted
\* and the other insert was refused by the unique constraint.
C1_Witness_InsertRace ==
    \E r1 \in InFlight, r2 \in InFlight :
        /\ r1.user # r2.user
        /\ r1.pc = "done" /\ r1.created
        /\ r2.pc = "done" /\ r2.status = "integrity_error" /\ r2.pair # <<0, 0>>
        /\ Cardinality(MatchRowsOf(r1.user, r2.user)) = 1

\* C4: an invocation of get_or_create_match whose insert violates the unique
\* constraint returns the existing row with created = false; no
\* constraint-violation error reaches its caller.  (Stated as the claim; the
\* code lets the IntegrityError of db.commit() propagate.)
C4_InsertRaceReturnsExisting ==
    \A r \in InFlight :
        (r.pc = "done" /\ r.pair # <<0, 0>> /\ ~r.created) =>
            /\ r.status = "ok"
            /\ r.match \in SelectMatch(user_matches, r.pair[1], r.pair[2])

\* C5: once get_or_create_match has been called twice for the same two users
\* (either argument order, one after the other or concurrently) there is
\* exactly one UserMatch row for them and created = true was returned exactly
\* once.
C5_TwoCallsOneRowOneCreated ==
    \A a \in Users, b \in Users :
        LET Call(r) == CalledGetOrCreate(r) /\ PairOfCall(r) = {a, b}
            Created(r) == Call(r) /\ r.created
        IN  (a < b /\ CountReqs(Call) >= 2) =>
                /\ Cardinality(MatchRowsOf(a, b)) = 1
                /\ CountReqs(Created) = 1

\* C5 witness: two calls in the two argument orders, one after the other: the
\* first created the row, the second found it.
C5_Witness_SecondCallFindsRow ==
    \E r1 \in InFlight, r2 \in InFlight :
        /\ r1.user < r2.user
        /\ CalledGetOrCreate(r1) /\ CalledGetOrCreate(r2)
        /\ PairOfCall(r1) = PairOfCall(r2)
        /\ r2.created /\ r1.status = "ok" /\ ~r1.created
        /\ r1.match = r2.match

\* ----------------------------------------------- claims on the session ledger
\* a session is active: current, not revoked, not expired at time t
ActiveAt(s, t) == s.is_current /\ s.revoked_at = None /\ s.refresh_expires_at > t

\* a session is in state REVOKED
Revoked(s) == ~s.is_current /\ s.revoked_at # None

\* the sessions refresh_tokens created from session id
SuccessorsIn(table, id) == {t \in table : t.parent = id}

\* the login session a session descends from
RECURSIVE RootIn(_, _)
RootIn(table, id) ==
    LET s == RowById(table, id)
    IN  IF s.parent = None THEN id ELSE RootIn(table, s.parent)

\* the active sessions of the lineage of session id
ActiveInLineage(table, id, t) ==
    {x \in table : RootIn(table, x.id) = RootIn(table, id) /\ ActiveAt(x, t)}

\* the sessions whose stored hash verifies the token
SessionsOfToken(table, token) ==
    {x \in table : verify_refresh_token(token, x.refresh_token_hash)}

\* C2: while a refresh request rotates an active session S (it has looked S
\* up and has not yet answered), the committed rows never show the lineage of
\* S with zero active sessions, nor with two.  (Stated as the claim; the code
\* commits the revoke and the create separately.)
C2_RotationObservedAtomically ==
    \A r \in SInFlight :
        (/\ r.op = "refresh"
         /\ r.pc \in {"revoke", "create_session"}
         /\ RowById(user_sessions, r.session).refresh_expires_at > now) =>
            Cardinality(ActiveInLineage(user_sessions, r.session, now)) = 1

\* C3: of the refresh requests that present the token of one session at most
\* one succeeds: no session has two successors.  (Stated as the claim; two
\* requests that both looked the session up before either revoked it both
\* create a successor.)
C3_AtMostOneSuccessor ==
    \A s \in user_sessions : Cardinality(SuccessorsIn(user_sessions, s.id)) <= 1

\* C6: when a rotation of S completes, S is not active and the new session is
\* the one active session of the lineage; and a refresh request that arrives
\* later with the token of a rotated session, naming its owner, is answered
\* 'Invalid refresh token' and changes no session.  (Stated as the claim; the
\* first part fails when two rotations of S race, see C3.)
C6_RotationThenOldTokenInvalid ==
    [][/\ \A t \in user_sessions' :
             (t.parent # None /\ t.id \notin {s.id : s \in user_sessions}) =>
                /\ ~ActiveAt(RowById(user_sessions', t.parent), now')
                /\ ActiveInLineage(user_sessions', t.id, now') = {t}
       /\ \A e \in BagToSet(sreqs') :
             (/\ nreq' = nreq + 1
              /\ CopiesIn(e, sreqs') > CopiesIn(e, sreqs)
              /\ e.op = "refresh") =>
                \A x \in SessionsOfToken(user_sessions, e.token) :
                    ~(x.user_id = e.user /\ SuccessorsIn(user_sessions, x.id) # {})
       /\ (/\ nreq' = nreq + 1
           /\ sreqs' = sreqs
           /\ answered'.op = "refresh"
           /\ \E x \in SessionsOfToken(user_sessions, answered'.token) :
                 x.user_id = answered'.user /\ SuccessorsIn(user_sessions, x.id) # {}) =>
             /\ answered'.status = "invalid_refresh_token"
             /\ user_sessions' = user_sessions
      ]_vars

\* C7: a refresh request that stopped part-way never leaves the session it had
\* looked up revoked by rotation with no successor.  (Stated as the claim; a
\* request that stops between the two commits leaves exactly that.)
C7_StoppedRefreshNotHalfRotated ==
    (/\ answered.op = "refresh"
     /\ answered.status = "aborted"
     /\ answered.session # None
     /\ \A r \in SInFlight : ~(r.op = "refresh" /\ r.session = answered.session)) =>
        LET old == RowById(user_sessions, answered.session)
        IN  ~(/\ Revoked(old)
              /\ old.revoke_reason = "rotation"
              /\ SuccessorsIn(user_sessions, old.id) = {})

\* C8: REVOKED is terminal: a session row that is revoked (is_current false,
\* revoked_at set) is still revoked after every step of every login, refresh,
\* logout and revoke_all_sessions_for_user.
C8_RevokedIsTerminal ==
    [][\A s \in user_sessions :
          Revoked(s) => \E t \in user_sessions' : t.id = s.id /\ Revoked(t)]_vars

\* C8 witness: a revoked session that operations went on acting on: it was
\* rotated (it has a successor) and a logout that had looked it up revoked it
\* again afterwards.
C8_Witness_RevokedTwice ==
    \E s \in user_sessions :
        /\ Revoked(s)
        /\ s.revoke_reason = "logout"
        /\ SuccessorsIn(user_sessions, s.id) # {}
        /\ answered.op = "logout" /\ answered.status = "ok" /\ answered.session = s.id

\* C9: a refresh request passes its checks and goes on to issue a new session
\* only if the session it presented is active at that moment: current, not
\* revoked and refresh_expires_at > now.  (Stated as the claim; the code
\* rejects only refresh_expires_at < now, so a session that expires exactly
\* now is rotated.)
C9_RefreshOnlyWhenActive ==
    [][\A r \in SInFlight :
          (/\ r.op = "refresh" /\ r.pc = "revoke"
           /\ sreqs' = (sreqs (-) SetToBag({r}))
                          (+) SetToBag({[r EXCEPT !.pc = "create_session"]})) =>
             ActiveAt(RowById(user_sessions, r.session), now)]_vars

\* C10: the lookup by refresh token never returns a session whose
\* refresh_expires_at is in the past, whichever handler calls it, and a session
\* that a refresh or logout revoked after its expiry carries the reason
\* 'expired'.  (Stated as the claim; the lookup does not read
\* refresh_expires_at.)
C10_ExpiredLookupReturnsNone ==
    /\ \A r \in SInFlight :
          (r.op \in {"refresh", "logout"} /\ r.session # None) =>
              RowById(user_sessions, r.session).refresh_expires_at >= now
    /\ \A s \in user_sessions :
          (/\ s.revoked_at # None
           /\ s.revoked_at > s.refresh_expires_at
           /\ s.revoke_reason # "bulk_revoke") => s.revoke_reason = "expired"

\* the step in which the request in flight as r runs its next statements
\* (and is not stopped)
StepOf(r) ==
    /\ CopiesIn(r, sreqs') < CopiesIn(r, sreqs)
    /\ answered' # SAnswered(r, "aborted", None)

\* C11: a refresh request that reaches its expiry check with a session that is
\* expired (not refresh_expires_at > now) ends there: the session is revoked
\* with reason 'expired', the caller gets an error and no session row is
\* created.  (Stated as the claim; a session that expires exactly now passes
\* the check, see C9.)
C11_ExpiredRefreshRevokedAndRejected ==
    [][\A r \in SInFlight :
          (/\ r.op = "refresh" /\ r.pc = "revoke"
           /\ ~(RowById(user_sessions, r.session).refresh_expires_at > now)
           /\ StepOf(r)) =>
             /\ sreqs' = sreqs (-) SetToBag({r})
             /\ answered'.op = "refresh"
             /\ answered'.status \notin {"ok", "pending"}
             /\ answered'.new_session = None
             /\ LET s == RowById(user_sessions', r.session)
                IN  Revoked(s) /\ s.revoke_reason = "expired"
             /\ {s.id : s \in user_sessions'} = {s.id : s \in user_sessions}]_vars

\* C12: revoke is idempotent: no step changes is_current, revoked_at or
\* revoke_reason (or anything else) of a session that is already revoked.
\* (Stated as the claim; revoke_session writes the three columns of the row
\* it was handed whatever the row holds by then.)
C12_RevokeIsIdempotent ==
    [][\A s \in user_sessions : Revoked(s) => s \in user_sessions']_vars

\* C13: the commit of revoke_all_sessions_for_user(u, e) revokes, with reason
\* 'bulk_revoke', every session of u that was current when the call read the
\* table, except e, and leaves every other row as it is: session e, the
\* sessions of u that were revoked already, the sessions of every other user.
C13_RevokeAllFrame ==
    [][\A r \in SInFlight :
          (/\ r.op = "revoke_all" /\ r.pc = "commit"
           /\ StepOf(r)) =>
             /\ Cardinality(user_sessions') = Cardinality(user_sessions)
             /\ \A s \in user_sessions :
                   IF s.user_id = r.user /\ s.id \in r.loaded /\ s.id # r.except
                   THEN [s EXCEPT !.is_current = FALSE, !.revoked_at = now,
                                  !.revoke_reason = "bulk_revoke"] \in user_sessions'
                   ELSE s \in user_sessions']_vars

\* C13 witness: a bulk revoke of a user with two sessions that names one of
\* them as the exception has been answered: the exception is still active, the
\* other one is revoked with reason 'bulk_revoke'.
C13_Witness_ExceptKeptOtherRevoked ==
    /\ answered.op = "revoke_all" /\ answered.status = "ok"
    /\ answered.except # None
    /\ ActiveAt(RowById(user_sessions, answered.except), now)
    /\ \E s \in user_sessions :
          /\ s.user_id = answered.user /\ s.id # answered.except
          /\ Revoked(s) /\ s.revoke_reason = "bulk_revoke"

\* --------------------------------------- further claims on the match engine
\* the step in which the like/dislike request in flight as r runs its next
\* statements
ReactionStepOf(r) == CopiesIn(r, reqs') < CopiesIn(r, reqs)

\* user b has a reaction whose current result is 'like' on an animal of user a
LikesAnAnimalOf(b, a) ==
    \E l \in animal_likes :
        l.from_user_id = b /\ l.result = "like" /\ OwnerOf(l.animal_id) = a

\* the reactions of user u to animal a
LikeRowsOf(table, u, a) == {l \in table : l.from_user_id = u /\ l.animal_id = a}

\* C14: every UserMatch row satisfies user_id1 < user_id2, whichever of the
\* two users' like led to its creation.
C14_MatchPairIsOrdered ==
    \A m \in user_matches : m.user_id1 < m.user_id2

\* C14 witness: the row was created by the like of the user with the larger
\* id, who was passed as user_a_id.
C14_Witness_CreatedByLargerId ==
    \E r \in InFlight :
        /\ r.pc = "done" /\ r.created
        /\ r.user > OwnerOf(r.animal)
        /\ \E m \in user_matches :
              m.id = r.match /\ m.user_id1 = OwnerOf(r.animal) /\ m.user_id2 = r.user

\* C15: a like of a on an animal of b that reaches the mutual-like check when
\* b has no reaction with result 'like' on an animal of a is answered
\* (None, false) and leaves user_matches unchanged; and a UserMatch row is
\* inserted only by a like request that passed that check, for its two users.
C15_MatchOnlyOnMutualLike ==
    [][/\ \A r \in InFlight :
             (/\ r.pc = "detect" /\ ReactionStepOf(r)
              /\ ~LikesAnAnimalOf(OwnerOf(r.animal), r.user)) =>
                /\ reqs' = Replace(r, Answered(r, "ok", None, FALSE))
                /\ user_matches' = user_matches
       /\ user_matches' # user_matches =>
             \E r \in InFlight :
                /\ r.kind = "like" /\ r.pc = "insert_match" /\ ReactionStepOf(r)
                /\ \E m \in user_matches' :
                      /\ user_matches' = user_matches \cup {m}
                      /\ {m.user_id1, m.user_id2} = {r.user, OwnerOf(r.animal)}]_vars

\* C15 witness: a like was answered without a match while the owner's only
\* reaction to the requester's animals was a dislike.
C15_Witness_OnlyDislikeNoMatch ==
    \E r \in InFlight :
        /\ r.kind = "like" /\ r.pc = "done" /\ r.status = "ok"
        /\ r.match = None /\ ~r.created
        /\ \E l \in animal_likes :
              /\ l.from_user_id = OwnerOf(r.animal)
              /\ OwnerOf(l.animal_id) = r.user
              /\ l.result = "dislike"
        /\ ~LikesAnAnimalOf(OwnerOf(r.animal), r.user)
        /\ user_matches = {}

C19_DislikeLeavesMatchesAlone ==
    [][/\ \A r \in BagToSet(reqs') :
             r.kind = "dislike" =>
                r.pc \in {"write_like", "done"} /\ r.match = None /\ ~r.created
       /\ (\E r \in BagToSet(reqs) \cup BagToSet(reqs') :
              r.kind = "dislike" /\ CopiesIn(r, reqs') # CopiesIn(r, reqs)) =>
             user_matches' = user_matches]_vars

\* C19 witness: two users matched, and one of them then disliked the animal
\* whose like had produced the match: the dislike overwrote that like, was
\* answered, and the match row is still there.
C19_Witness_DislikeAfterMatch ==
    \E r1 \in InFlight, r2 \in InFlight :
        /\ r1.kind = "like" /\ r1.pc = "done" /\ r1.created
        /\ r2.kind = "dislike" /\ r2.pc = "done" /\ r2.status = "ok"
        /\ r2.user = r1.user /\ r2.animal = r1.animal /\ r2.existing # None
        /\ LikesAnAnimalOf(OwnerOf(r2.animal), r2.user)
        /\ \E m \in user_matches : m.id = r1.match
        /\ \E l \in animal_likes : l.id = r2.existing /\ l.result = "dislike"

\* C20: no step of a like, dislike, login, refresh, logout or bulk revoke
\* changes or removes a UserMatch row (the users are never deleted), and a
\* row is added only by the insert of get_or_create_match, run for a like.
C20_MatchRowsOnlyAddedByGetOrCreate ==
    [][/\ user_matches \subseteq user_matches'
       /\ user_matches' # user_matches =>
             \E r \in InFlight :
                /\ r.kind = "like" /\ r.pc = "insert_match" /\ ReactionStepOf(r)
                /\ Cardinality(user_matches') = Cardinality(user_matches) + 1]_vars

\* C20 witness: the match row of users 1 and 2 is there, created by a like
\* that was answered, and so is the session of a login that was answered.
C20_Witness_MatchAndSession ==
    /\ \E m \in user_matches : m.user_id1 = 1 /\ m.user_id2 = 2
    /\ \E r \in InFlight : r.kind = "like" /\ r.pc = "done" /\ r.created
    /\ answered.op = "login" /\ answered.status = "ok"
    /\ \E s \in user_sessions : s.id = answered.new_session

\* C24: a like or dislike of a user on an animal the user owns is answered
\* 400 by the handler before create_or_update_like runs: the request never
\* goes further, its arrival changes no table, no match comes of it, and no
\* AnimalLike row has from_user_id equal to the owner of its animal.
C24_OwnAnimalRejectedByHandler ==
    [][/\ \A l \in animal_likes' : l.from_user_id # OwnerOf(l.animal_id)
       /\ \A r \in BagToSet(reqs') :
             (r.animal \in Animals /\ r.user = OwnerOf(r.animal)) =>
                /\ r.pc = "done" /\ r.status = "bad_request"
                /\ r.existing = None /\ r.match = None /\ ~r.created
                /\ CopiesIn(r, reqs') > CopiesIn(r, reqs) =>
                      animal_likes' = animal_likes /\ user_matches' = user_matches]_vars

\* C24 witness: a user's like of their own animal was refused at a time when
\* the other user already liked that animal.
C24_Witness_OwnLikeRefused ==
    \E r \in InFlight :
        /\ r.kind = "like" /\ r.user = OwnerOf(r.animal)
        /\ r.pc = "done" /\ r.status = "bad_request"
        /\ \E l \in animal_likes :
              l.animal_id = r.animal /\ l.from_user_id # r.user /\ l.result = "like"

\* C33: a mutual like is never missed.  Once every reaction request has been
\* answered, with a result or with an error, each two users who like an animal
\* of each other have their UserMatch row; so do user a and user b after the
\* two concurrent requests in which a likes an animal of b and b likes an
\* animal of a, however their steps interleave.
C33_MutualLikeIsNeverMissed ==
    (\A r \in InFlight : r.pc = "done") =>
        \A a \in Users, b \in Users :
            (/\ a # b
             /\ \E l \in animal_likes :
                   l.from_user_id = a /\ l.result = "like" /\ OwnerOf(l.animal_id) = b
             /\ \E l \in animal_likes :
                   l.from_user_id = b /\ l.result = "like" /\ OwnerOf(l.animal_id) = a) =>
                \E m \in user_matches :
                    <<m.user_id1, m.user_id2>> = NormalizeMatchPair(a, b)

\* C33 witness: two like requests of two users on each other's animals ran
\* concurrently (both found no match row and both went on to insert it: one of
\* them ended in the IntegrityError of C4), and the match row is there.
C33_Witness_ConcurrentLikesMatched ==
    /\ \A r \in InFlight : r.pc = "done"
    /\ \E r1 \in InFlight, r2 \in InFlight :
          /\ r1.kind = "like" /\ r2.kind = "like"
          /\ r1.user # r2.user
          /\ r1.user = OwnerOf(r2.animal) /\ r2.user = OwnerOf(r1.animal)
          /\ r1.status = "ok" /\ r1.created
          /\ r2.status = "integrity_error"
          /\ \E m \in user_matches :
                <<m.user_id1, m.user_id2>> = NormalizeMatchPair(r1.user, r2.user)

\* --------------------------------------- claims on the session ledger, further
\* C25: a session row is changed by revocation only: every row stays in the
\* table with its id, user_id, device_id, refresh_token_hash and
\* refresh_expires_at (and ip_address, user_agent), and a row that changes
\* comes out revoked, with nothing but is_current, revoked_at and
\* revoke_reason written.  The create step of a rotation inserts a row with a
\* new id and a new hash, and the row it rotates is revoked by then.
C25_SessionRowsChangeByRevocationOnly ==
    [][/\ \A s \in user_sessions :
             \E t \in user_sessions' :
                /\ t.id = s.id
                /\ \/ t = s
                   \/ /\ Revoked(t)
                      /\ t = [s EXCEPT !.is_current = FALSE,
                                       !.revoked_at = t.revoked_at,
                                       !.revoke_reason = t.revoke_reason]
       /\ \A r \in SInFlight :
             (r.op = "refresh" /\ r.pc = "create_session" /\ StepOf(r)) =>
                /\ Revoked(RowById(user_sessions', r.session))
                /\ \E new \in user_sessions' \ user_sessions :
                      /\ new.id \notin {s.id : s \in user_sessions}
                      /\ new.id = answered'.new_session
                      /\ \A s \in user_sessions :
                            new.refresh_token_hash # s.refresh_token_hash]_vars

\* C25 witness: a rotation is complete: the old row is revoked and holds the
\* hash and expiry it was created with, the new row is another row.
C25_Witness_RotatedIntoNewRow ==
    \E old \in user_sessions, new \in user_sessions :
        /\ new.parent = old.id /\ new.id # old.id
        /\ Revoked(old) /\ old.revoke_reason = "rotation"
        /\ old.refresh_token_hash = hash_refresh_token(old.id)
        /\ new.refresh_token_hash # old.refresh_token_hash
        /\ answered.op = "refresh" /\ answered.status = "ok"
        /\ answered.new_session = new.id

\* C26: a refresh that passes the expiry check revokes the session it loaded
\* with reason 'rotation' and goes on to create_session; its create step
\* answers with a new session that is active, belongs to the user of the old
\* one and carries the old one's device_id, ip_address and user_agent.
C26_RotationRevokesOldCreatesNew ==
    [][\A r \in SInFlight :
          (r.op = "refresh" /\ StepOf(r)) =>
             LET old == RowById(user_sessions, r.session)
             IN  /\ (r.pc = "revoke" /\ ~(old.refresh_expires_at < now)) =>
                       /\ \E t \in user_sessions' :
                             /\ t.id = old.id /\ Revoked(t)
                             /\ t.revoke_reason = "rotation" /\ t.revoked_at = now
                       /\ [r EXCEPT !.pc = "create_session"] \in BagToSet(sreqs')
                 /\ r.pc = "create_session" =>
                       /\ answered'.op = "refresh" /\ answered'.status = "ok"
                       /\ old \in user_sessions' /\ Revoked(old)
                       /\ \E new \in user_sessions' \ user_sessions :
                             /\ new.id = answered'.new_session
                             /\ new.id # old.id
                             /\ ActiveAt(new, now)
                             /\ new.user_id = old.user_id
                             /\ new.user_id = r.user
                             /\ new.device_id = old.device_id
                             /\ new.ip_address = old.ip_address
                             /\ new.user_agent = old.user_agent]_vars

\* C26 witness: a refresh was answered with a new active session of the same
\* user and device, whose predecessor is revoked with reason 'rotation'.
C26_Witness_RotationAnswered ==
    /\ answered.op = "refresh" /\ answered.status = "ok"
    /\ \E old \in user_sessions, new \in user_sessions :
          /\ new.id = answered.new_session /\ new.parent = old.id
          /\ old.revoke_reason = "rotation" /\ Revoked(old)
          /\ ActiveAt(new, now)
          /\ new.user_id = old.user_id /\ new.device_id = old.device_id
          /\ \E d \in user_devices : d.id = new.device_id /\ d.user_id = new.user_id
          /\ new.ip_address = IpOf("c1") /\ new.user_agent = UserAgentOf("c1")

C28_OtherUsersTokenFindsNothing ==
    [][/\ \A r \in BagToSet(sreqs') :
             r.op \in {"refresh", "logout"} =>
                /\ r.session # None
                /\ \E s \in user_sessions' :
                      /\ s.id = r.session /\ s.user_id = r.user
                      /\ verify_refresh_token(r.token, s.refresh_token_hash)
       /\ nreq' # nreq => user_sessions' = user_sessions
       /\ (/\ nreq' # nreq /\ sreqs' = sreqs
           /\ answered'.op \in {"refresh", "logout"}
           /\ answered'.user \in Users) =>
              /\ answered'.status \in {"invalid_refresh_token", "already_logged_out"}
              /\ answered'.new_session = None
              /\ ~\E s \in CurrentSessionsOf(user_sessions, answered'.user) :
                     verify_refresh_token(answered'.token, s.refresh_token_hash)
       /\ \A r \in SInFlight :
             (r.op \in {"refresh", "logout"} /\ StepOf(r)) =>
                /\ \A s \in user_sessions : s.user_id # r.user => s \in user_sessions'
                /\ \A s \in user_sessions' \ user_sessions : s.user_id = r.user]_vars

\* C28 witness: a refresh naming one user with the token of another user's
\* active session was answered 401, and that session is still active.
C28_Witness_ForeignTokenRefused ==
    /\ answered.op = "refresh" /\ answered.status = "invalid_refresh_token"
    /\ answered.user \in Users
    /\ \E s \in user_sessions :
          /\ s.user_id # answered.user /\ s.user_id \in Users
          /\ verify_refresh_token(answered.token, s.refresh_token_hash)
          /\ ActiveAt(s, now)

\* C30: a rejected refresh gets the same response whether its session was
\* expired or its token was unknown or revoked.
\* (Stated as the claim; the expired case is answered with a detail of its own.)
C30_RejectedRefreshHidesCause ==
    (answered.op = "refresh"
       /\ answered.status \in {"invalid_refresh_token", "refresh_token_expired"}) =>
          RefreshResponse(answered.status) = RefreshResponse("invalid_refresh_token")

\* the user row a request names as its user (None for a phone of no user)
UserOf(r) == get_user_by_phone(r.user)

\* C31: a login with a wrong password for an existing user gets the response
\* a login for a phone of no user gets, 401 "Incorrect phone or password";
\* both are answered as they arrive, and their arrival adds no device row and
\* no session row.
C31_WrongPasswordLooksLikeNoUser ==
    [][/\ LoginResponse("wrong_password") = LoginResponse("no_user_to_log_in")
       /\ \A r \in BagToSet(sreqs') :
             r.op = "login" => UserOf(r).id # None /\ r.password_ok
       /\ (answered'.op = "login"
              /\ (UserOf(answered').id = None \/ ~answered'.password_ok)) =>
             /\ answered'.status \in {"no_user_to_log_in", "wrong_password"}
             /\ LoginResponse(answered'.status) = <<401, "Incorrect phone or password">>
             /\ answered'.new_session = None /\ answered'.device = None
             /\ answered' # answered =>
                   user_devices' = user_devices /\ user_sessions' = user_sessions]_vars

\* C31 witnesses: a login of a confirmed user with a wrong password was
\* refused while that user holds a session from an earlier login.
C31_Witness_WrongPasswordRefused ==
    /\ answered.op = "login" /\ answered.status = "wrong_password"
    /\ UserOf(answered).is_email_verified
    /\ \E s \in user_sessions : s.user_id = answered.user

\* C34: a step adds a session row only as the create step of a login or of a
\* refresh: of a login whose user exists, is active, has a password hash
\* that verified and a confirmed e-mail, or of a refresh whose user exists
\* and is active; it adds one row, of that user, and the request is answered
\* with it.  A login or refresh answered with anything else adds no row.
C34_SessionsOnlyForAdmittedUsers ==
    [][/\ user_sessions' # user_sessions /\ {s.id : s \in user_sessions'} # {s.id : s \in user_sessions} =>
             \E r \in SInFlight :
                /\ StepOf(r) /\ r.pc = "create_session"
                /\ r.op \in {"login", "refresh"}
                /\ UserOf(r).id # None /\ UserOf(r).is_active
                /\ r.op = "login" =>
                      /\ UserOf(r).hashed_password /\ r.password_ok
                      /\ UserOf(r).is_email_verified
                /\ answered'.status = "ok"
                /\ \E new \in user_sessions' :
                      /\ new.id = answered'.new_session /\ new.user_id = UserOf(r).id
                      /\ user_sessions' \ user_sessions = {new}
       /\ \A r \in SInFlight :
             (StepOf(r) /\ r.op \in {"login", "refresh"} /\ answered'.status # "ok") =>
                {s.id : s \in user_sessions'} = {s.id : s \in user_sessions}
       /\ (nreq' # nreq) => user_sessions' = user_sessions]_vars

\* C34 witness: a user who has not confirmed the e-mail presented the right
\* password and was refused, and so were a disabled user and a user with no
\* password hash; meanwhile a confirmed user holds a session.
C34_Witness_UnconfirmedRefused ==
    /\ answered.op = "login" /\ answered.status = "email_not_verified"
    /\ answered.password_ok /\ ~UserOf(answered).is_email_verified
    /\ \A s \in user_sessions : UserOf([user |-> s.user_id]).is_email_verified
    /\ user_sessions # {}

\* What a step may do for the claim on logout: a logout goes past its
\* lookup only with an active session of its caller whose hash verifies its
\* token; its revoke step revokes that row with reason 'logout', leaves every
\* other row as it is, and answers ok; the arrival of a logout changes no
\* row; and a refresh that arrives with the token of a session revoked with
\* reason 'logout' is refused at once.
LogoutStep ==
    /\ nreq' # nreq => user_sessions' = user_sessions
    /\ \A r \in BagToSet(sreqs') :
          (r.op = "logout" /\ CopiesIn(r, sreqs') > CopiesIn(r, sreqs)) =>
             \E s \in user_sessions :
                /\ s.id = r.session /\ s.user_id = r.user
                /\ verify_refresh_token(r.token, s.refresh_token_hash)
                /\ ActiveAt(s, now)
    /\ \A r \in SInFlight :
          (r.op = "logout" /\ StepOf(r)) =>
             /\ answered'.op = "logout" /\ answered'.status = "ok"
             /\ user_sessions' =
                   {IF s.id = r.session
                    THEN [s EXCEPT !.is_current = FALSE, !.revoked_at = now,
                                   !.revoke_reason = "logout"]
                    ELSE s : s \in user_sessions}
    /\ \A r \in BagToSet(sreqs') \cup {answered'} :
          (/\ nreq' # nreq /\ r.op = "refresh"
           /\ \E s \in user_sessions :
                 /\ verify_refresh_token(r.token, s.refresh_token_hash)
                 /\ s.revoke_reason = "logout") =>
             r = answered' /\ r.status \in {"invalid_refresh_token", "invalid_credentials"}

\* C35: a logout with the token of an active session of its caller revokes
\* that session with reason 'logout' and no other row, and a later refresh
\* with that token fails; a logout whose token matches no active session of
\* its caller changes no session row.
\* (Stated as the claim; a current session whose refresh_expires_at has passed
\* is not active, and logout finds and revokes it, see C10.)
C35_LogoutRevokesExactlyThatSession == [][LogoutStep]_vars

\* ------------------------------------------- claims on registration by e-mail
\* C36: for every e-mail verification code row, attempt_count never exceeds
\* max_attempts, and the number of wrong codes that were checked against the
\* row never exceeds max_attempts either, whether the guesses arrive one after
\* another or in concurrent requests.
C36_WrongGuessesAreBounded ==
    \A c \in email_verification_codes :
        /\ c.attempt_count <= c.max_attempts
        /\ c.wrong_guesses <= c.max_attempts

\* C37: is_email_verified never returns to false, a new user starts with it
\* false, and it becomes true only in the step of a confirm request whose code
\* hashes to the code_hash of an unexpired 'register' code row of that user,
\* which is consumed in that step; a confirm request gets that far only with
\* the user's most recent code row that is unconsumed and unexpired when the
\* request reads it; and a confirm request is answered "email_verified" only
\* while the code row it names is still unconsumed, so that a consumed code
\* is never accepted again.
C37_VerifiedOnlyByTheLatestCode ==
    [][/\ \A v \in users' :
            IF \E u \in users : u.id = v.id
            THEN \A u \in users :
                   /\ (u.id = v.id /\ u.is_email_verified) => v.is_email_verified
                   /\ (u.id = v.id /\ ~u.is_email_verified /\ v.is_email_verified) =>
                        \E r \in CInFlight :
                          /\ r.op = "confirm" /\ r.pc = "consume" /\ r.user = u.id
                          /\ CopiesIn(r, creqs') < CopiesIn(r, creqs)
                          /\ canswered'.status = "email_verified"
                          /\ \E c \in email_verification_codes :
                                /\ c.id = r.code_row /\ c.user_id = u.id
                                /\ c.purpose = "register" /\ c.expires_at > now
                                /\ c.code_hash = <<"bcrypt", r.code>>
                          /\ \E c \in email_verification_codes' :
                                c.id = r.code_row /\ c.consumed_at # None
            ELSE ~v.is_email_verified
       /\ \A r \in CInFlight :
            (r.op = "confirm" /\ r.pc = "consume"
               /\ CopiesIn(r, creqs') < CopiesIn(r, creqs)) =>
              \E c \in email_verification_codes :
                c.id = r.code_row /\ c.consumed_at = None
       /\ \A r \in BagToSet(creqs') :
            (r.op = "confirm" /\ r.pc = "consume"
               /\ CopiesIn(r, creqs') > CopiesIn(r, creqs)) =>
              \E c \in email_verification_codes :
                /\ c.id = r.code_row /\ c.user_id = r.user /\ c.email = r.email
                /\ c.purpose = "register" /\ c.code_hash = <<"bcrypt", r.code>>
                /\ c.consumed_at = None /\ c.expires_at > now
                /\ \A d \in email_verification_codes :
                     (d.user_id = r.user /\ d.email = r.email /\ d.purpose = "register"
                        /\ d.consumed_at = None /\ d.expires_at > now) => d.id <= c.id
      ]_vars

\* ------------------------------------------------- claims on the photos
\* C38: once the photo requests received have all been answered, an animal
\* with at least one photo has exactly one photo with is_primary true.
\* (Stated as the claim; two uploads that both count no photo both insert a
\* primary photo.)
C38_ExactlyOnePrimaryPhoto ==
    (preqs = EmptyBag /\ animal_photos # {}) =>
        Cardinality({p \in animal_photos : p.is_primary}) = 1

\* C39: a reorder request that runs alone (no other request is in flight and
\* the table is as the request read it) and is answered ok named each photo
\* of the animal once, and leaves the photo named i-th at position i - 1, so
\* that the positions are 0..n-1; a reorder request that is refused leaves
\* every position as it was.
\* (Stated as the claim; photo_ids that repeat an id pass the check on sets.)
C39_ReorderGivesPositionsInOrder ==
    [][/\ \A r \in PInFlight :
             (/\ r.op = "reorder" /\ preqs = SetToBag({r})
              /\ r.loaded = animal_photos
              /\ preqs' = EmptyBag /\ panswered'.status = "ok") =>
                /\ Len(r.ordered_ids) = Cardinality(animal_photos')
                /\ \A i \in 1..Len(r.ordered_ids) :
                      \E p \in animal_photos' :
                         p.id = r.ordered_ids[i] /\ p.position = i - 1
                /\ {p.position : p \in animal_photos'} =
                      0..(Cardinality(animal_photos') - 1)
       /\ (npreq' # npreq /\ panswered'.op = "reorder"
              /\ panswered'.status = "bad_request") =>
             animal_photos' = animal_photos]_vars

\* ------------------------------------------ claims on functions called directly
\* C21: for user ids a # b, _normalize_match_pair(a, b) returns the pair
\* (min(a, b), max(a, b)), which is also what the call with the arguments
\* swapped returns.
C21_NormalizeIsSymmetricMinMax ==
    (call.fn = "_normalize_match_pair" /\ call.args[1] # call.args[2]) =>
        LET a == call.args[1]
            b == call.args[2]
            min == IF a <= b THEN a ELSE b
            max == IF a <= b THEN b ELSE a
        IN  /\ call.raised = ""
            /\ call.result = <<min, max>>
            /\ call.result = NormalizeMatchPair(b, a)

\* C21 witness: a call whose first argument is the larger id.
C21_Witness_LargerFirst ==
    /\ call.fn = "_normalize_match_pair"
    /\ call.args[1] > call.args[2]
    /\ call.result = <<call.args[2], call.args[1]>>

\* C22: _normalize_match_pair(x, x) raises the self-match ValueError, and
\* get_or_create_match called with two equal ids raises it too and leaves
\* user_matches as it was.
C22_SelfMatchFails ==
    [][(/\ call'.n = call.n + 1
        /\ call'.fn \in {"_normalize_match_pair", "get_or_create_match"}
        /\ call'.args[1] = call'.args[2]) =>
           /\ call'.raised = "ValueError"
           /\ call'.result = <<>>
           /\ user_matches' = user_matches]_vars

\* C22 witness: get_or_create_match was called with twice the same id when
\* the table held a row, and raised.
C22_Witness_SelfMatchRefused ==
    /\ call.fn = "get_or_create_match"
    /\ call.args[1] = call.args[2]
    /\ call.raised = "ValueError"
    /\ user_matches # {}

\* C23: create_or_update_like called with a result other than 'like' and
\* 'dislike' raises ValueError and leaves animal_likes as it was.
C23_InvalidResultRefused ==
    [][(/\ call'.n = call.n + 1
        /\ call'.fn = "create_or_update_like"
        /\ call'.args[3] \notin {"like", "dislike"}) =>
           /\ call'.raised = "ValueError"
           /\ animal_likes' = animal_likes]_vars

\* C23 witness: the call with result 'superlike' on a pair that has a row
\* raised, and the row still holds 'like'.
C23_Witness_SuperlikeRefused ==
    /\ call.fn = "create_or_update_like"
    /\ call.args[3] = "superlike"
    /\ call.raised = "ValueError"
    /\ \E l \in animal_likes :
          /\ l.from_user_id = call.args[1] /\ l.animal_id = call.args[2]
          /\ l.result = "like"

\* C32: verifying a refresh token or a verification code against a stored
\* hash raises nothing: where the hash primitive raises, the answer is False.
\* (Stated as the claim; verify_refresh_token lets the exception through.)
C32_VerificationFailsClosed ==
    call.fn \in {"verify_refresh_token", "verify_verification_code"} =>
        /\ call.raised = ""
        /\ VerifyRaises(call.args[1], call.args[2]) => call.result = <<FALSE>>

\* C29: a token that does not parse, is badly signed, is expired or has a
\* type other than 'access' is rejected, whatever the cause, with the one
\* answer 401 "Could not validate credentials", and no claim of it is
\* returned; so is a token with no usable sub.  Only a well-formed, well
\* signed, unexpired access token yields claims: the user id of its sub.
C29_TokenRejectedUniformly ==
    call.fn = "get_current_user" =>
        LET token == call.args[1]
            bad == \/ ~token.wellformed \/ ~token.signature_ok
                   \/ token.exp < now \/ token.type # "access"
        IN  /\ bad => call.raised = Unauthorized /\ call.result = <<>>
            /\ call.raised \in {"", Unauthorized}
            /\ call.raised = "" <=> call.result # <<>>
            /\ call.result # <<>> =>
                  ~bad /\ call.result = <<IntOfSub(token.sub)>> /\ call.result[1] \in Users

\* C29 witness: a well-formed, well signed, unexpired token of type 'refresh'
\* naming a user was rejected with the answer every other bad token gets.
C29_Witness_RefreshTypedTokenRejected ==
    /\ call.fn = "get_current_user"
    /\ call.args[1].wellformed /\ call.args[1].signature_ok
    /\ call.args[1].exp > now /\ call.args[1].type = "refresh"
    /\ call.args[1].sub = "1"
    /\ call.raised = Unauthorized /\ call.result = <<>>

====
